---- MODULE Spec2Model ----
(***************************************************************************)
(* Payment confirmation and analysis orchestration of the wallet_analysis  *)
(* app: the handlers of views.py, tasks.py and admin.py over the rows of   *)
(* models.py, for one WalletAnalysisOrder and its SolanaPayment.           *)
(*                                                                         *)
(* Django runs in autocommit mode: every save(), create() and delete() is  *)
(* its own committed statement, so each handler is a process whose steps   *)
(* are its database statements; the reads and the external calls that      *)
(* precede a statement belong to the step of that statement.               *)
(***************************************************************************)
EXTENDS Integers, Sequences, FiniteSets, TLC

VARIABLES
    oStatus,    \* WalletAnalysisOrder.status of the stored order row
    payment,    \* the stored SolanaPayment row: status, transaction_signature, confirmed_at
    aged,       \* TRUE once the payment's created_at is older than the sweep's grace window
    chain,      \* signatures of the landed transactions that reference the payment's key, newest first
    queue,      \* tasks handed to django_q.async_task, oldest first
    pc,         \* position of each confirmation handler
    loc,        \* per handler: the signature in hand, the attempt number, the admin's verify flag
    res,        \* per handler: the outcome of its last finished invocation
    calls,      \* per handler: its invocations so far
    hist        \* history: writes of transaction_signature and confirming saves per handler

VARIABLES
    jobs,       \* the stored DuneQueryJob rows of the order
    reports,    \* per query name: the stored ReportFile rows of the order with that file_type
    wpc,        \* position of each worker running execute_wallet_analysis
    wloc,       \* per worker: its query_jobs list, its loop index, the exception in hand
    wres,       \* per worker: how its last run ended
    runs,       \* deliveries of the execute_wallet_analysis task so far
    apc,        \* position of each admin action on the order's jobs
    aloc,       \* per admin action: the order status it loaded, its loop index
    adminCalls  \* invocations of the admin actions so far

VARIABLES
    msg,        \* an error message, a sequence of characters
    errType     \* the error type recorded for it

payVars == <<payment, aged, chain, pc, loc, res, calls, hist>>

runVars == <<jobs, reports, wpc, wloc, wres, runs, apc, aloc, adminCalls>>

clsVars == <<msg, errType>>

\* one call of verify_transaction_on_chain on a fetched transaction
VARIABLES
    rpc,        \* what the RPC node answers: the transaction, nothing, or no answer
    tx,         \* the transaction get_transaction returns
    expected_amount,  \* the argument of that name
    verdict     \* what the call gave its caller

verVars == <<rpc, tx, expected_amount, verdict>>

\* the orders and payments create_order_view has stored
VARIABLES
    orders,     \* the ids of the WalletAnalysisOrder rows
    payments,   \* the SolanaPayment rows
    cpc,        \* where each request of create_order_view stands
    cord,       \* the order each request has created
    cres        \* how each request's last call ended

createVars == <<orders, payments, cpc, cord, cres>>

\* one polling loop of a job in execute_wallet_analysis
VARIABLES
    ppc,          \* where the loop stands
    elapsed_time, \* the local variable of that name
    state,        \* status.state of the last poll
    polls,        \* calls of dune.get_execution_status so far
    ended         \* how the loop ended

pollVars == <<ppc, elapsed_time, state, polls, ended>>

\* the derivations of the recipient's associated token account
VARIABLES
    recipient_pubkey, \* the wallet the payment goes to
    mint_pubkey,  \* the mint of the token
    derived       \* per derivation: the address it gave

ataVars == <<recipient_pubkey, mint_pubkey, derived>>

\* one call of solana_analysis
VARIABLES
    spc,          \* where the call stands
    existing_jobs, \* the local variable of that name: the jobs it found for the order
    sres          \* how the call ended

solVars == <<spc, existing_jobs, sres>>

auxVars == <<pollVars, ataVars, solVars>>

vars == <<oStatus, queue, payVars, runVars, clsVars, verVars, createVars, auxVars>>

----------------------------------------------------------------------------
(* Bounds *)

\* invocations of the confirmation handlers, all handlers together
MaxCalls == 3

----------------------------------------------------------------------------
(* models.py *)

NULL == "null"

STATUS_PENDING_PAYMENT == "pending_payment"
STATUS_PAYMENT_RECEIVED == "payment_received"
STATUS_PROCESSING == "processing"
STATUS_COMPLETED == "completed"
STATUS_PARTIAL_COMPLETE == "partial_complete"
STATUS_FAILED == "failed"

OrderStatuses ==
    {STATUS_PENDING_PAYMENT, STATUS_PAYMENT_RECEIVED, STATUS_PROCESSING,
     STATUS_COMPLETED, STATUS_PARTIAL_COMPLETE, STATUS_FAILED}

PAY_PENDING == "pending"
PAY_CONFIRMED == "confirmed"
PAY_FINALIZED == "finalized"
PAY_FAILED == "failed"

PaymentStatuses == {PAY_PENDING, PAY_CONFIRMED, PAY_FINALIZED, PAY_FAILED}

\* SolanaPayment.is_paid
is_paid(p) == p.status \in {PAY_CONFIRMED, PAY_FINALIZED}

\* queries_config of execute_wallet_analysis, in its order
QueryNames == <<"defi_activity", "token_transfers">>

\* the django-q cluster runs tasks on several workers
Workers == {"w1", "w2"}

AdminActions == {"rerun", "retry"}

NoRun == [jobs |-> <<>>, i |-> 0, err |-> NULL]

NoAdmin == [status |-> NULL, i |-> 0]

\* no job exists, no analysis has run, no admin action has been taken
RunAtRest ==
    /\ jobs = {}
    /\ reports = [n \in {QueryNames[k] : k \in 1..Len(QueryNames)} |-> 0]
    /\ wpc = [w \in Workers |-> "idle"]
    /\ wloc = [w \in Workers |-> NoRun]
    /\ wres = [w \in Workers |-> "none"]
    /\ runs = 0
    /\ apc = [a \in AdminActions |-> "idle"]
    /\ aloc = [a \in AdminActions |-> NoAdmin]
    /\ adminCalls = 0

\* no error message is being classified
ClsAtRest ==
    /\ msg = <<>>
    /\ errType = NULL

NoTx == [err |-> "none", account_keys |-> {}, instructions |-> <<>>]

Requests == {"r1", "r2"}

\* no request of create_order_view has been made
CreateAtRest ==
    /\ orders = {}
    /\ payments = {}
    /\ cpc = [r \in Requests |-> "idle"]
    /\ cord = [r \in Requests |-> 0]
    /\ cres = [r \in Requests |-> "none"]

\* no polling loop is running
PollAtRest ==
    /\ ppc = "rest"
    /\ elapsed_time = 0
    /\ state = NULL
    /\ polls = 0
    /\ ended = "none"

\* nothing is being derived
AtaAtRest ==
    /\ recipient_pubkey = NULL
    /\ mint_pubkey = NULL
    /\ derived = [d \in {"verify", "old", "test"} |-> <<>>]

\* solana_analysis is not running
SolAtRest ==
    /\ spc = "rest"
    /\ existing_jobs = {}
    /\ sres = "none"

AuxAtRest == PollAtRest /\ AtaAtRest /\ SolAtRest

\* no transaction is being verified
VerAtRest ==
    /\ rpc = "found"
    /\ tx = NoTx
    /\ expected_amount = 1
    /\ verdict = "pending"

----------------------------------------------------------------------------
(* The ledger, as the handlers see it through solana_utils.py *)

\* sigGood satisfies the payment's descriptor, sigBad references the key but does not
Signatures == {"sigGood", "sigBad"}

InChain(sig) == \E i \in 1..Len(chain) : chain[i] = sig

\* verify_transaction_on_chain: TRUE exactly for a landed transaction that
\* satisfies the descriptor; every exception inside it is turned into FALSE
verify_transaction_on_chain(sig) == InChain(sig) /\ sig = "sigGood"

\* search_transactions_by_reference: the newest signature referencing the key, or None
search_transactions_by_reference == IF Len(chain) > 0 THEN chain[1] ELSE NULL

----------------------------------------------------------------------------
(* Handlers *)

Handlers == {"api", "sweep", "view", "admin"}

API_TASK == "wallet_analysis.tasks.execute_wallet_analysis"
SWEEP_TASK == "cryptotax.wallet_analysis.tasks.execute_wallet_analysis"

\* max_retries of verify_payment_api
max_retries == 10

NoLoc == [sig |-> NULL, att |-> 0, verified |-> FALSE]

\* a request or a scheduled run arrives
TotalCalls == calls["api"] + calls["sweep"] + calls["view"] + calls["admin"]

Call(h) ==
    /\ pc[h] = "idle"
    /\ TotalCalls < MaxCalls
    /\ calls' = [calls EXCEPT ![h] = @ + 1]

\* the handler returns; its local objects are gone
Finish(h, outcome) ==
    /\ pc' = [pc EXCEPT ![h] = "idle"]
    /\ loc' = [loc EXCEPT ![h] = NoLoc]
    /\ res' = [res EXCEPT ![h] = outcome]

Goto(h, label, locals) ==
    /\ pc' = [pc EXCEPT ![h] = label]
    /\ loc' = [loc EXCEPT ![h] = locals]
    /\ UNCHANGED res

SavePaymentFinalized(h) ==
    /\ payment' = [status |-> PAY_FINALIZED, transaction_signature |-> loc[h].sig,
                   confirmed_at |-> "now"]
    /\ hist' = [sigWrites |-> hist.sigWrites + 1,
                unverified |-> hist.unverified \/ ~loc[h].verified,
                nonPending |-> hist.nonPending \/ payment.status # PAY_PENDING,
                confirms |-> [hist.confirms EXCEPT ![h] = @ + 1]]

\* payment.transaction_signature = signature; payment.status = STATUS_CONFIRMED;
\* payment.confirmed_at = timezone.now(); payment.save()
SavePayment(h) ==
    /\ payment' = [status |-> PAY_CONFIRMED, transaction_signature |-> loc[h].sig,
                   confirmed_at |-> "now"]
    /\ hist' = [sigWrites |-> hist.sigWrites + 1,
                unverified |-> hist.unverified \/ ~loc[h].verified,
                nonPending |-> hist.nonPending \/ payment.status # PAY_PENDING,
                confirms |-> [hist.confirms EXCEPT ![h] = @ + 1]]

\* order.status = STATUS_PAYMENT_RECEIVED; order.save()
SaveOrder == oStatus' = STATUS_PAYMENT_RECEIVED

\* async_task(name, order_id=str(order.id))
async_task(h, name) == queue' = Append(queue, [func |-> name, by |-> h])

\* the three statements every confirmation path ends with, one step each
SavePaymentStepThenEnqueue(h) ==
    /\ pc[h] = "savePayment"
    /\ SavePayment(h)
    /\ Goto(h, "enqueue", loc[h])
    /\ UNCHANGED <<runVars, clsVars, verVars, createVars, auxVars, oStatus, queue, aged, chain, calls>>

SavePaymentStep(h) ==
    /\ pc[h] = "savePayment"
    /\ SavePayment(h)
    /\ Goto(h, "saveOrder", loc[h])
    /\ UNCHANGED <<runVars, clsVars, verVars, createVars, auxVars, oStatus, queue, aged, chain, calls>>

SaveOrderStep(h) ==
    /\ pc[h] = "saveOrder"
    /\ SaveOrder
    /\ Goto(h, "enqueue", loc[h])
    /\ UNCHANGED <<runVars, clsVars, verVars, createVars, auxVars, queue, payment, aged, chain, calls, hist>>

EnqueueStep(h, name) ==
    /\ pc[h] = "enqueue"
    /\ async_task(h, name)
    /\ Finish(h, "verified")
    /\ UNCHANGED <<runVars, clsVars, verVars, createVars, auxVars, oStatus, payment, aged, chain, calls, hist>>

\* a save or async_task raises: the handler ends there, what it wrote stays
ErrorStep(h) ==
    /\ pc[h] \in {"savePayment", "saveOrder", "enqueue"}
    /\ Finish(h, "error")
    /\ UNCHANGED <<runVars, clsVars, verVars, createVars, auxVars, oStatus, queue, payment, aged, chain, calls, hist>>

(* verify_payment_api *)

ApiLoadNoPaidCheck(sig) ==
    /\ Call("api")
    /\ Goto("api", "verify", [sig |-> sig, att |-> 0, verified |-> FALSE])
    /\ UNCHANGED <<runVars, clsVars, verVars, createVars, auxVars, oStatus, queue, payment, aged, chain, hist>>

\* fetch the payment; an already paid one answers success at once
ApiLoad(sig) ==
    /\ Call("api")
    /\ IF is_paid(payment)
       THEN Finish("api", "already")
       ELSE Goto("api", "verify", [sig |-> sig, att |-> 0, verified |-> FALSE])
    /\ UNCHANGED <<runVars, clsVars, verVars, createVars, auxVars, oStatus, queue, payment, aged, chain, hist>>

ApiVerifyKeepsSignature ==
    /\ pc["api"] = "verify"
    /\ LET ok == verify_transaction_on_chain(loc["api"].sig)
           att == loc["api"].att + 1
       IN  IF ok
           THEN /\ Goto("api", "savePayment", [loc["api"] EXCEPT !.att = att, !.verified = TRUE])
                /\ UNCHANGED payment
           ELSE IF att < max_retries
           THEN /\ Goto("api", "verify", [loc["api"] EXCEPT !.att = att])
                /\ UNCHANGED payment
           ELSE /\ Finish("api", "failed")
                /\ payment' = [payment EXCEPT !.transaction_signature = loc["api"].sig]
    /\ UNCHANGED <<runVars, clsVars, verVars, createVars, auxVars, oStatus, queue, aged, chain, calls, hist>>

\* one attempt of the retry loop
ApiVerify ==
    /\ pc["api"] = "verify"
    /\ LET ok == verify_transaction_on_chain(loc["api"].sig)
           att == loc["api"].att + 1
       IN  IF ok THEN Goto("api", "savePayment", [loc["api"] EXCEPT !.att = att, !.verified = TRUE])
           ELSE IF att < max_retries THEN Goto("api", "verify", [loc["api"] EXCEPT !.att = att])
           ELSE Finish("api", "failed")
    /\ UNCHANGED <<runVars, clsVars, verVars, createVars, auxVars, oStatus, queue, payment, aged, chain, calls, hist>>

ApiSavePayment == SavePaymentStep("api")

ApiSaveOrder == SaveOrderStep("api")

ApiEnqueue == EnqueueStep("api", API_TASK)

\* an exception is answered with status 500
ApiError == ErrorStep("api")

verify_payment_api ==
    \/ \E sig \in Signatures : ApiLoad(sig)
    \/ ApiVerify
    \/ ApiSavePayment
    \/ ApiSaveOrder
    \/ ApiEnqueue
    \/ ApiError

(* check_pending_payments *)

SweepLoadIgnoresGrace ==
    /\ Call("sweep")
    /\ IF payment.status = PAY_PENDING
       THEN LET sig == search_transactions_by_reference
            IN  IF sig # NULL /\ verify_transaction_on_chain(sig)
                THEN Goto("sweep", "savePayment", [sig |-> sig, att |-> 0, verified |-> TRUE])
                ELSE Finish("sweep", "none")
       ELSE Finish("sweep", "none")
    /\ UNCHANGED <<runVars, clsVars, verVars, createVars, auxVars, oStatus, queue, payment, aged, chain, hist>>

\* the pending payments older than the grace window; for each one the newest
\* signature referencing its key is searched and verified
SweepLoad ==
    /\ Call("sweep")
    /\ IF payment.status = PAY_PENDING /\ aged
       THEN LET sig == search_transactions_by_reference
            IN  IF sig # NULL /\ verify_transaction_on_chain(sig)
                THEN Goto("sweep", "savePayment", [sig |-> sig, att |-> 0, verified |-> TRUE])
                ELSE Finish("sweep", "none")
       ELSE Finish("sweep", "none")
    /\ UNCHANGED <<runVars, clsVars, verVars, createVars, auxVars, oStatus, queue, payment, aged, chain, hist>>

SweepSavePayment == SavePaymentStep("sweep")

SweepSaveOrder == SaveOrderStep("sweep")

SweepEnqueue == EnqueueStep("sweep", SWEEP_TASK)

\* an exception ends the scheduled task
SweepError == ErrorStep("sweep")

check_pending_payments ==
    \/ SweepLoad
    \/ SweepSavePayment
    \/ SweepSaveOrder
    \/ SweepEnqueue
    \/ SweepError

(* verify_signature_view, POST with a signature *)

\* the order and its payment are fetched and the signature verified once;
\* the payment's status is not looked at
ViewLoad(sig) ==
    /\ Call("view")
    /\ IF verify_transaction_on_chain(sig)
       THEN Goto("view", "savePayment", [sig |-> sig, att |-> 0, verified |-> TRUE])
       ELSE Finish("view", "failed")
    /\ UNCHANGED <<runVars, clsVars, verVars, createVars, auxVars, oStatus, queue, payment, aged, chain, hist>>

ViewSavePayment == SavePaymentStep("view")

ViewSaveOrder == SaveOrderStep("view")

ViewEnqueue == EnqueueStep("view", API_TASK)

ViewError == ErrorStep("view")

verify_signature_view ==
    \/ \E sig \in Signatures : ViewLoad(sig)
    \/ ViewSavePayment
    \/ ViewSaveOrder
    \/ ViewEnqueue
    \/ ViewError

(* SolanaPaymentAdmin.manually_confirm_payment, POST with 'apply' *)

\* only a pending payment is taken; the signature is verified unless the
\* operator unchecked verify_on_chain
AdminLoad(sig, verify) ==
    /\ Call("admin")
    /\ IF payment.status # PAY_PENDING
       THEN Finish("admin", "none")
       ELSE LET ok == verify /\ verify_transaction_on_chain(sig)
            IN  IF verify /\ ~ok
                THEN Finish("admin", "failed")
                ELSE Goto("admin", "savePayment", [sig |-> sig, att |-> 0, verified |-> ok])
    /\ UNCHANGED <<runVars, clsVars, verVars, createVars, auxVars, oStatus, queue, payment, aged, chain, hist>>

AdminSavePayment == SavePaymentStep("admin")

AdminSaveOrder == SaveOrderStep("admin")

AdminEnqueue == EnqueueStep("admin", API_TASK)

AdminError == ErrorStep("admin")

manually_confirm_payment ==
    \/ \E sig \in Signatures, verify \in BOOLEAN : AdminLoad(sig, verify)
    \/ AdminSavePayment
    \/ AdminSaveOrder
    \/ AdminEnqueue
    \/ AdminError

(* The environment *)

\* a transaction referencing the payment's key lands on the ledger
Land(sig) ==
    /\ ~InChain(sig)
    /\ chain' = <<sig>> \o chain
    /\ UNCHANGED <<runVars, clsVars, verVars, createVars, auxVars, oStatus, queue, payment, aged, pc, loc, res, calls, hist>>

\* the grace window of the sweep passes
GraceElapses ==
    /\ ~aged
    /\ aged' = TRUE
    /\ UNCHANGED <<runVars, clsVars, verVars, createVars, auxVars, oStatus, queue, payment, chain, pc, loc, res, calls, hist>>

----------------------------------------------------------------------------
(* The confirmation paths: create_order_view has stored a pending_payment   *)
(* order with its pending payment                                           *)

Init ==
    /\ oStatus = STATUS_PENDING_PAYMENT
    /\ payment = [status |-> PAY_PENDING, transaction_signature |-> NULL, confirmed_at |-> NULL]
    /\ aged = FALSE
    /\ chain = <<>>
    /\ queue = <<>>
    /\ pc = [h \in Handlers |-> "idle"]
    /\ loc = [h \in Handlers |-> NoLoc]
    /\ res = [h \in Handlers |-> "none"]
    /\ calls = [h \in Handlers |-> 0]
    /\ hist = [sigWrites |-> 0, unverified |-> FALSE, nonPending |-> FALSE,
               confirms |-> [h \in Handlers |-> 0]]
    /\ RunAtRest
    /\ ClsAtRest
    /\ VerAtRest
    /\ CreateAtRest
    /\ AuxAtRest

Next ==
    \/ verify_payment_api
    \/ check_pending_payments
    \/ verify_signature_view
    \/ manually_confirm_payment
    \/ \E sig \in Signatures : Land(sig)
    \/ GraceElapses

Spec == Init /\ [][Next]_vars

----------------------------------------------------------------------------
(* Properties of the confirmation paths *)

Enqueued(h) == Cardinality({i \in 1..Len(queue) : queue[i].by = h})

AllIdle == \A h \in Handlers : pc[h] = "idle"

\* C1: once verify_payment_api has confirmed a payment and enqueued the
\* analysis, every later call of it returns at once with "already confirmed":
\* it never verifies, saves or enqueues again, so the API confirms the
\* payment once and enqueues the task once.
C1_ApiConfirmsOnce ==
    /\ hist.confirms["api"] <= 1
    /\ Enqueued("api") <= 1
    /\ Enqueued("api") = 1 =>
          /\ hist.confirms["api"] = 1
          /\ pc["api"] = "idle"
          /\ res["api"] \in {"verified", "already"}
          /\ is_paid(payment)

\* the API confirmed the payment and a second call was answered "already confirmed"
C1_Witness ==
    /\ calls["api"] = 2
    /\ pc["api"] = "idle"
    /\ res["api"] = "already"
    /\ Enqueued("api") = 1
    /\ payment.transaction_signature = "sigGood"

\* C2: under every interleaving of verify_payment_api and
\* check_pending_payments on the same pending payment, the two together save
\* the confirmation at most once and enqueue the analysis at most once.
C2_ApiAndSweepConfirmOnce ==
    /\ hist.confirms["api"] + hist.confirms["sweep"] <= 1
    /\ Enqueued("api") + Enqueued("sweep") <= 1

\* C3: once every confirmation handler has returned, also after a failure
\* between its two saves, the payment is not confirmed with the order still
\* pending_payment, nor the order payment_received with the payment pending.
C3_PaymentAndOrderAgree ==
    AllIdle =>
        /\ ~(payment.status = PAY_CONFIRMED /\ oStatus = STATUS_PENDING_PAYMENT)
        /\ ~(oStatus = STATUS_PAYMENT_RECEIVED /\ payment.status = PAY_PENDING)

\* C4: a confirmation path enqueues the analysis task only when its own
\* payment save has been done and the stored payment is confirmed with a
\* signature and a confirmation time and the stored order is no longer
\* pending_payment.
C4_EnqueueAfterBothSaves ==
    [][Len(queue') > Len(queue) =>
          LET h == queue'[Len(queue')].by
          IN  /\ pc[h] = "enqueue"
              /\ hist.confirms[h] >= 1
              /\ payment.status = PAY_CONFIRMED
              /\ payment.transaction_signature # NULL
              /\ payment.confirmed_at # NULL
              /\ oStatus # STATUS_PENDING_PAYMENT]_vars

\* the API and the sweep have each enqueued the task after their saves
C4_Witness ==
    /\ Enqueued("sweep") = 1
    /\ Enqueued("api") = 1
    /\ oStatus = STATUS_PAYMENT_RECEIVED

\* C5: over all calls of the four handlers that write it, the payment's
\* transaction_signature is saved at most once, only after on-chain
\* verification returned true, and only while the stored payment is pending.
C5_SignatureWrittenOnce ==
    /\ hist.sigWrites <= 1
    /\ ~hist.unverified
    /\ ~hist.nonPending

\* the step in which handler h learns that on-chain verification failed
VerificationFails(h) ==
    CASE h = "api" -> pc["api"] = "verify" /\ pc'["api"] = "idle"
      [] h = "sweep" ->
            /\ calls'["sweep"] # calls["sweep"]
            /\ payment.status = PAY_PENDING /\ aged
            /\ search_transactions_by_reference # NULL
            /\ pc'["sweep"] = "idle"
      [] h = "view" -> calls'["view"] # calls["view"] /\ pc'["view"] = "idle"
      [] h = "admin" ->
            /\ calls'["admin"] # calls["admin"]
            /\ payment.status = PAY_PENDING
            /\ pc'["admin"] = "idle"

\* C6: when on-chain verification of the signature fails, the handler reports
\* failure (the sweep counts no verified payment), writes neither the payment
\* nor the order and enqueues nothing; a pending payment stays pending with a
\* null signature and a null confirmed_at.
C6_FailedVerificationWritesNothing ==
    [][\A h \in Handlers :
          VerificationFails(h) =>
              /\ res'[h] = (IF h = "sweep" THEN "none" ELSE "failed")
              /\ payment' = payment
              /\ oStatus' = oStatus
              /\ queue' = queue
              /\ hist' = hist
              /\ payment.status = PAY_PENDING =>
                    /\ payment'.transaction_signature = NULL
                    /\ payment'.confirmed_at = NULL]_vars

\* the API gave up after its last attempt and the sweep found only a
\* transaction that does not verify, with the payment still pending
C6_Witness ==
    /\ res["api"] = "failed"
    /\ res["sweep"] = "none"
    /\ calls["sweep"] = 1
    /\ chain = <<"sigBad">>
    /\ aged
    /\ payment.status = PAY_PENDING
    /\ AllIdle

----------------------------------------------------------------------------
(* Classification of a job's error, execute_wallet_analysis lines 283-294 *)

ERROR_QUERY == "query_error"
ERROR_NETWORK == "network_error"
ERROR_RATE_LIMIT == "rate_limit"
ERROR_SERVICE_OUTAGE == "service_outage"
ERROR_AUTH == "auth_error"

UpperCase == <<"A", "B", "C", "D", "E", "F", "G", "H", "I", "J", "K", "L", "M", "N", "O", "P", "Q", "R", "S", "T", "U", "V", "W", "X", "Y", "Z">>
LowerCase == <<"a", "b", "c", "d", "e", "f", "g", "h", "i", "j", "k", "l", "m", "n", "o", "p", "q", "r", "s", "t", "u", "v", "w", "x", "y", "z">>

\* str.lower(), character by character
LowerChar(c) ==
    IF \E k \in 1..Len(UpperCase) : UpperCase[k] = c
    THEN LowerCase[CHOOSE k \in 1..Len(UpperCase) : UpperCase[k] = c]
    ELSE c

Lower(text) == [k \in 1..Len(text) |-> LowerChar(text[k])]

\* needle in text
Contains(text, needle) ==
    \E k \in 0..(Len(text) - Len(needle)) :
        \A j \in 1..Len(needle) : text[k + j] = needle[j]

K_RATE_LIMIT == <<"r", "a", "t", "e", " ", "l", "i", "m", "i", "t">>
K_AUTH == <<"a", "u", "t", "h">>
K_401 == <<"4", "0", "1">>
K_TIMEOUT == <<"t", "i", "m", "e", "o", "u", "t">>
K_QUERY == <<"q", "u", "e", "r", "y">>
K_EXECUTION == <<"e", "x", "e", "c", "u", "t", "i", "o", "n">>

ClassifyQueryBeforeTimeout(error_message) ==
    IF Contains(Lower(error_message), K_RATE_LIMIT) THEN ERROR_RATE_LIMIT
    ELSE IF Contains(Lower(error_message), K_AUTH) \/ Contains(error_message, K_401) THEN ERROR_AUTH
    ELSE IF Contains(Lower(error_message), K_QUERY) \/ Contains(Lower(error_message), K_EXECUTION)
         THEN ERROR_QUERY
    ELSE IF Contains(Lower(error_message), K_TIMEOUT) THEN ERROR_NETWORK
    ELSE ERROR_NETWORK

\* the if / elif chain that sets job.error_type
Classify(error_message) ==
    IF Contains(Lower(error_message), K_RATE_LIMIT) THEN ERROR_RATE_LIMIT
    ELSE IF Contains(Lower(error_message), K_AUTH) \/ Contains(error_message, K_401) THEN ERROR_AUTH
    ELSE IF Contains(Lower(error_message), K_TIMEOUT) THEN ERROR_NETWORK
    ELSE IF Contains(Lower(error_message), K_QUERY) \/ Contains(Lower(error_message), K_EXECUTION)
         THEN ERROR_QUERY
    ELSE ERROR_NETWORK

\* words of the messages that are classified
MaxWords == 2

Vocabulary ==
    { <<"r", "a", "t", "e">>, <<"l", "i", "m", "i", "t">>, <<"R", "a", "t", "e">>, <<"e", "x", "c", "e", "e", "d", "e", "d">>, <<"4", "0", "1">>, <<"u", "n", "a", "u", "t", "h", "o", "r", "i", "z", "e", "d">>, <<"A", "u", "t", "h", "e", "n", "t", "i", "c", "a", "t", "i", "o", "n">>,
      <<"t", "i", "m", "e", "o", "u", "t">>, <<"t", "i", "m", "e", "d">>, <<"Q", "u", "e", "r", "y">>, <<"e", "x", "e", "c", "u", "t", "i", "o", "n">>, <<"f", "a", "i", "l", "e", "d">> }

Join(a, b) == a \o <<" ">> \o b

RECURSIVE MessagesOf(_)
MessagesOf(n) ==
    IF n = 1 THEN Vocabulary
    ELSE LET shorter == MessagesOf(n - 1)
         IN  shorter \cup {Join(m, w) : m \in shorter, w \in Vocabulary}

Messages == MessagesOf(MaxWords)

\* str(query_error) of a failed job is classified
ClassifyStep ==
    /\ errType = NULL
    /\ errType' = Classify(msg)
    /\ UNCHANGED <<msg, oStatus, queue, payVars, runVars, verVars, createVars, auxVars>>

InitClassify ==
    /\ msg \in Messages
    /\ errType = NULL
    /\ oStatus = STATUS_PROCESSING
    /\ queue = <<>>
    /\ payment = [status |-> PAY_CONFIRMED, transaction_signature |-> "sigGood",
                  confirmed_at |-> "now"]
    /\ aged = FALSE
    /\ chain = <<"sigGood">>
    /\ pc = [h \in Handlers |-> "idle"]
    /\ loc = [h \in Handlers |-> NoLoc]
    /\ res = [h \in Handlers |-> "none"]
    /\ calls = [h \in Handlers |-> 0]
    /\ hist = [sigWrites |-> 0, unverified |-> FALSE, nonPending |-> FALSE,
               confirms |-> [h \in Handlers |-> 0]]
    /\ RunAtRest
    /\ VerAtRest
    /\ CreateAtRest
    /\ AuxAtRest

NextClassify == ClassifyStep

SpecClassify == InitClassify /\ [][NextClassify]_vars

Has(needle) == Contains(Lower(msg), needle)

\* C10 as claimed: "rate limit" gives rate_limit; otherwise "auth" or "401"
\* gives auth_error; otherwise "query" or "execution" gives query_error; a
\* message with none of these gives network_error.
C10_AsClaimed ==
    errType # NULL =>
        /\ Has(K_RATE_LIMIT) => errType = ERROR_RATE_LIMIT
        /\ ~Has(K_RATE_LIMIT) /\ (Has(K_AUTH) \/ Has(K_401)) => errType = ERROR_AUTH
        /\ ~Has(K_RATE_LIMIT) /\ ~Has(K_AUTH) /\ ~Has(K_401)
              /\ (Has(K_QUERY) \/ Has(K_EXECUTION)) => errType = ERROR_QUERY
        /\ ~Has(K_RATE_LIMIT) /\ ~Has(K_AUTH) /\ ~Has(K_401)
              /\ ~Has(K_QUERY) /\ ~Has(K_EXECUTION) => errType = ERROR_NETWORK

\* C10 amended: matching ignores case; "rate limit" gives rate_limit;
\* otherwise "auth" or "401" gives auth_error; otherwise "timeout" gives
\* network_error; otherwise "query" or "execution" gives query_error; a
\* message with none of the known substrings gives network_error.
C10_Classification ==
    errType # NULL =>
        /\ Has(K_RATE_LIMIT) => errType = ERROR_RATE_LIMIT
        /\ ~Has(K_RATE_LIMIT) /\ (Has(K_AUTH) \/ Has(K_401)) => errType = ERROR_AUTH
        /\ ~Has(K_RATE_LIMIT) /\ ~Has(K_AUTH) /\ ~Has(K_401) /\ Has(K_TIMEOUT) =>
              errType = ERROR_NETWORK
        /\ ~Has(K_RATE_LIMIT) /\ ~Has(K_AUTH) /\ ~Has(K_401) /\ ~Has(K_TIMEOUT)
              /\ (Has(K_QUERY) \/ Has(K_EXECUTION)) => errType = ERROR_QUERY
        /\ ~Has(K_RATE_LIMIT) /\ ~Has(K_AUTH) /\ ~Has(K_401) /\ ~Has(K_TIMEOUT)
              /\ ~Has(K_QUERY) /\ ~Has(K_EXECUTION) => errType = ERROR_NETWORK

\* "Query timeout" has been classified: it holds "query" and "timeout"
C10_Witness ==
    /\ msg = Join(<<"Q", "u", "e", "r", "y">>, <<"t", "i", "m", "e", "o", "u", "t">>)
    /\ errType = ERROR_NETWORK

----------------------------------------------------------------------------
(* The DuneQueryJob table, models.py *)

\* deliveries of the analysis task, the duplicates of at-least-once delivery included
MaxRuns == 2

\* invocations of the admin actions on the order's jobs
MaxAdmin == 1

JOB_QUEUED == "queued"
JOB_RUNNING == "running"
JOB_COMPLETED == "completed"
JOB_FAILED == "failed"
JOB_FAILED_NEEDS_REVIEW == "failed_needs_review"

NumQueries == Len(QueryNames)

\* Meta.unique_together = [['order', 'query_name']]: the rows an INSERT of
\* this query name would collide with
UniqueTogetherNotEnforced(name) == {}

UniqueTogether(name) == {r \in jobs : r.query_name = name}

\* the row DuneQueryJob.objects.create(order, query_name, dune_query_id, status=queued) builds;
\* the error_message None is written as the empty text
NewJob(id, name) ==
    [id |-> id, query_name |-> name, status |-> JOB_QUEUED, dune_execution_id |-> NULL,
     error_type |-> NULL, error_message |-> <<>>, started_at |-> NULL, completed_at |-> NULL]

\* uuid.uuid4(): a primary key that no row and no object in memory carries
UsedIds ==
    {r.id : r \in jobs}
        \cup UNION {{wloc[w].jobs[k].id : k \in 1..Len(wloc[w].jobs)} : w \in Workers}

FreshId == CHOOSE id \in 1..(Cardinality(UsedIds) + 1) : id \notin UsedIds

\* objects.create(): the INSERT raises IntegrityError on a collision
CanInsert(name) == UniqueTogether(name) = {}

\* job.save(): UPDATE by primary key, and an INSERT when no row has the key
SaveRaises(job) == (\A r \in jobs : r.id # job.id) /\ ~CanInsert(job.query_name)

Saved(job) == {r \in jobs : r.id # job.id} \cup {job}

\* filter(order=order, query_name=name).delete()
Deleted(name) == {r \in jobs : r.query_name # name}

----------------------------------------------------------------------------
(* execute_wallet_analysis *)

\* what str(query_error) can be, by the place that raised
TEXT_RATE_LIMIT == <<"r", "a", "t", "e", " ", "l", "i", "m", "i", "t", " ", "e", "x", "c", "e", "e", "d", "e", "d">>
TEXT_CONNECTION == <<"C", "o", "n", "n", "e", "c", "t", "i", "o", "n", " ", "r", "e", "s", "e", "t", " ", "b", "y", " ", "p", "e", "e", "r">>
TEXT_STATE_FAILED == <<"Q", "u", "e", "r", "y", " ", "f", "a", "i", "l", "e", "d", " ", "w", "i", "t", "h", " ", "s", "t", "a", "t", "e", ":", " ", "Q", "U", "E", "R", "Y", "_", "S", "T", "A", "T", "E", "_", "F", "A", "I", "L", "E", "D">>
\* str(job.query_name)
NameText(name) ==
    CASE name = "defi_activity" -> <<"d", "e", "f", "i", "_", "a", "c", "t", "i", "v", "i", "t", "y">>
      [] name = "token_transfers" -> <<"t", "o", "k", "e", "n", "_", "t", "r", "a", "n", "s", "f", "e", "r", "s">>

\* f"Query {job.query_name} timed out after {max_wait_time} seconds"
TEXT_TIMED_OUT(name) ==
    <<"Q", "u", "e", "r", "y", " ">> \o NameText(name) \o <<" ", "t", "i", "m", "e", "d", " ", "o", "u", "t", " ", "a", "f", "t", "e", "r", " ", "1", "8", "0", "0", " ", "s", "e", "c", "o", "n", "d", "s">>
TEXT_INTEGRITY == <<"U", "N", "I", "Q", "U", "E", " ", "c", "o", "n", "s", "t", "r", "a", "i", "n", "t", " ", "f", "a", "i", "l", "e", "d">>

ErrorKinds == {"rate_limit", "connection", "state_failed", "timeout", "integrity"}

ErrorText(err, name) ==
    CASE err = "rate_limit" -> TEXT_RATE_LIMIT
      [] err = "connection" -> TEXT_CONNECTION
      [] err = "state_failed" -> TEXT_STATE_FAILED
      [] err = "timeout" -> TEXT_TIMED_OUT(name)
      [] err = "integrity" -> TEXT_INTEGRITY

\* job.error_type for each of them
ErrorTypeOf ==
    [err \in ErrorKinds |->
        [name \in {QueryNames[k] : k \in 1..Len(QueryNames)} |-> Classify(ErrorText(err, name))]]

\* error_message[:500]
Truncated(text) == SubSeq(text, 1, IF Len(text) < 500 THEN Len(text) ELSE 500)

\* job.error_message for each of them
ErrorMessageOf ==
    [err \in ErrorKinds |->
        [name \in {QueryNames[k] : k \in 1..Len(QueryNames)} |-> Truncated(ErrorText(err, name))]]

RunGoto(w, label, locals) ==
    /\ wpc' = [wpc EXCEPT ![w] = label]
    /\ wloc' = [wloc EXCEPT ![w] = locals]
    /\ UNCHANGED wres

RunEnd(w, outcome) ==
    /\ wpc' = [wpc EXCEPT ![w] = "idle"]
    /\ wloc' = [wloc EXCEPT ![w] = NoRun]
    /\ wres' = [wres EXCEPT ![w] = outcome]

Job(w) == wloc[w].jobs[wloc[w].i]

WithJob(w, job) == [wloc[w] EXCEPT !.jobs[wloc[w].i] = job]

\* the for loop over query_jobs moves on, or the loop is over
AfterJob(locals) ==
    IF locals.i < Len(locals.jobs) THEN "jobStart" ELSE "finish"

NextJob(locals) ==
    IF locals.i < Len(locals.jobs)
    THEN [locals EXCEPT !.i = @ + 1, !.err = NULL]
    ELSE [locals EXCEPT !.err = NULL]

\* the task is delivered, again perhaps
Delivered(w) ==
    /\ wpc[w] = "idle"
    /\ runs < MaxRuns
    /\ \/ queue # <<>> /\ queue' = Tail(queue)
       \/ runs > 0 /\ UNCHANGED queue
    /\ runs' = runs + 1

\* the order is fetched and saved as processing; without settings.DUNE_API_KEY
\* a ValueError leaves the try block
RunStart(w) ==
    /\ Delivered(w)
    /\ oStatus' = STATUS_PROCESSING
    /\ \E api_key \in BOOLEAN :
           RunGoto(w, IF api_key THEN "create" ELSE "abort", [jobs |-> <<>>, i |-> 1, err |-> NULL])
    /\ UNCHANGED <<jobs, reports, apc, aloc, adminCalls, payVars, clsVars, verVars, createVars, auxVars>>

\* the task is delivered with an order_id that has no row:
\* except WalletAnalysisOrder.DoesNotExist: raise
RunOrderMissing(w) ==
    /\ Delivered(w)
    /\ wres' = [wres EXCEPT ![w] = "raised"]
    /\ UNCHANGED <<oStatus, jobs, reports, wpc, wloc, apc, aloc, adminCalls, payVars, clsVars, verVars, createVars, auxVars>>

\* the job just created is appended to query_jobs
Created(w) ==
    LET job == NewJob(FreshId, QueryNames[wloc[w].i])
        list == Append(wloc[w].jobs, job)
    IN  /\ jobs' = jobs \cup {job}
        /\ IF wloc[w].i < NumQueries
           THEN RunGoto(w, "create", [wloc[w] EXCEPT !.jobs = list, !.i = @ + 1])
           ELSE RunGoto(w, "jobStart", [wloc[w] EXCEPT !.jobs = list, !.i = 1])

\* DuneQueryJob.objects.create for the next query name
RunCreate(w) ==
    /\ wpc[w] = "create"
    /\ IF CanInsert(QueryNames[wloc[w].i])
       THEN Created(w)
       ELSE /\ RunGoto(w, "recreateDelete", wloc[w])
            /\ UNCHANGED jobs
    /\ UNCHANGED <<oStatus, queue, reports, runs, apc, aloc, adminCalls, payVars, clsVars, verVars, createVars, auxVars>>

\* except IntegrityError: the rows of that name are deleted
RunRecreateDelete(w) ==
    /\ wpc[w] = "recreateDelete"
    /\ jobs' = Deleted(QueryNames[wloc[w].i])
    /\ RunGoto(w, "recreateCreate", wloc[w])
    /\ UNCHANGED <<oStatus, queue, reports, runs, apc, aloc, adminCalls, payVars, clsVars, verVars, createVars, auxVars>>

\* and the job is created again; a second IntegrityError leaves the try block
RunRecreateCreate(w) ==
    /\ wpc[w] = "recreateCreate"
    /\ IF CanInsert(QueryNames[wloc[w].i])
       THEN Created(w)
       ELSE /\ RunGoto(w, "abort", wloc[w])
            /\ UNCHANGED jobs
    /\ UNCHANGED <<oStatus, queue, reports, runs, apc, aloc, adminCalls, payVars, clsVars, verVars, createVars, auxVars>>

\* a mutant of the job start: the start time is not set
RunJobStartNoTime(w) ==
    /\ wpc[w] = "jobStart"
    /\ LET job == [Job(w) EXCEPT !.status = JOB_RUNNING]
       IN  IF SaveRaises(job)
           THEN /\ RunGoto(w, "jobFail", [WithJob(w, job) EXCEPT !.err = "integrity"])
                /\ UNCHANGED jobs
           ELSE /\ jobs' = Saved(job)
                /\ RunGoto(w, "submit", WithJob(w, job))
    /\ UNCHANGED <<oStatus, queue, reports, runs, apc, aloc, adminCalls, payVars, clsVars, verVars, createVars, auxVars>>

\* job.status = running; job.started_at = now; job.save()
RunJobStart(w) ==
    /\ wpc[w] = "jobStart"
    /\ LET job == [Job(w) EXCEPT !.status = JOB_RUNNING, !.started_at = "now"]
       IN  IF SaveRaises(job)
           THEN /\ RunGoto(w, "jobFail", [WithJob(w, job) EXCEPT !.err = "integrity"])
                /\ UNCHANGED jobs
           ELSE /\ jobs' = Saved(job)
                /\ RunGoto(w, "submit", WithJob(w, job))
    /\ UNCHANGED <<oStatus, queue, reports, runs, apc, aloc, adminCalls, payVars, clsVars, verVars, createVars, auxVars>>

\* a mutant of the submission: the execution id is not put on the job
RunSubmitDropsId(w) ==
    /\ wpc[w] = "submit"
    /\ \/ RunGoto(w, "poll", wloc[w])
       \/ RunGoto(w, "jobFail", [wloc[w] EXCEPT !.err = "rate_limit"])
    /\ UNCHANGED <<oStatus, queue, jobs, reports, runs, apc, aloc, adminCalls, payVars, clsVars, verVars, createVars, auxVars>>

\* a mutant of the submission: the loop moves on without waiting for the result
RunSubmitNoWait(w) ==
    /\ wpc[w] = "submit"
    /\ LET job == [Job(w) EXCEPT !.dune_execution_id = "exec"]
       IN  /\ ~SaveRaises(job)
           /\ jobs' = Saved(job)
           /\ RunGoto(w, AfterJob(wloc[w]), NextJob(WithJob(w, job)))
    /\ UNCHANGED <<oStatus, queue, reports, runs, apc, aloc, adminCalls, payVars, clsVars, verVars, createVars, auxVars>>

\* dune.run_query(query); job.dune_execution_id = execution_id; job.save()
RunSubmit(w) ==
    /\ wpc[w] = "submit"
    /\ \/ LET job == [Job(w) EXCEPT !.dune_execution_id = "exec"]
          IN  IF SaveRaises(job)
              THEN /\ RunGoto(w, "jobFail", [WithJob(w, job) EXCEPT !.err = "integrity"])
                   /\ UNCHANGED jobs
              ELSE /\ jobs' = Saved(job)
                   /\ RunGoto(w, "poll", WithJob(w, job))
       \/ /\ RunGoto(w, "jobFail", [wloc[w] EXCEPT !.err = "rate_limit"])
          /\ UNCHANGED jobs
    /\ UNCHANGED <<oStatus, queue, reports, runs, apc, aloc, adminCalls, payVars, clsVars, verVars, createVars, auxVars>>

\* the polling loop, the download, the file and ReportFile.objects.create
RunPoll(w) ==
    /\ wpc[w] = "poll"
    /\ \/ /\ reports' = [reports EXCEPT ![Job(w).query_name] = @ + 1]
          /\ RunGoto(w, "complete", wloc[w])
       \/ \E err \in {"state_failed", "timeout", "connection"} :
              /\ RunGoto(w, "jobFail", [wloc[w] EXCEPT !.err = err])
              /\ UNCHANGED reports
    /\ UNCHANGED <<oStatus, queue, jobs, runs, apc, aloc, adminCalls, payVars, clsVars, verVars, createVars, auxVars>>

\* job.status = completed; job.completed_at = now; job.save()
RunJobComplete(w) ==
    /\ wpc[w] = "complete"
    /\ LET job == [Job(w) EXCEPT !.status = JOB_COMPLETED, !.completed_at = "now"]
       IN  IF SaveRaises(job)
           THEN /\ RunGoto(w, "jobFail", [WithJob(w, job) EXCEPT !.err = "integrity"])
                /\ UNCHANGED jobs
           ELSE /\ jobs' = Saved(job)
                /\ RunGoto(w, AfterJob(wloc[w]), NextJob(WithJob(w, job)))
    /\ UNCHANGED <<oStatus, queue, reports, runs, apc, aloc, adminCalls, payVars, clsVars, verVars, createVars, auxVars>>

\* a mutant of the handler: the loop goes on after a TimeoutError as well
RunJobFailGoesOn(w) ==
    /\ wpc[w] = "jobFail"
    /\ LET job == [Job(w) EXCEPT !.error_type = ErrorTypeOf[wloc[w].err][Job(w).query_name],
                                 !.error_message = ErrorMessageOf[wloc[w].err][Job(w).query_name],
                                 !.status = JOB_FAILED, !.completed_at = "now"]
       IN  IF SaveRaises(job)
           THEN /\ RunGoto(w, "abort", WithJob(w, job))
                /\ UNCHANGED jobs
           ELSE /\ jobs' = Saved(job)
                /\ RunGoto(w, AfterJob(wloc[w]), NextJob(WithJob(w, job)))
    /\ UNCHANGED <<oStatus, queue, reports, runs, apc, aloc, adminCalls, payVars, clsVars, verVars, createVars, auxVars>>

\* except Exception as query_error: the job is classified and saved as failed;
\* a TimeoutError ends the loop, an exception of this save leaves the try block
RunJobFail(w) ==
    /\ wpc[w] = "jobFail"
    /\ LET job == [Job(w) EXCEPT !.error_type = ErrorTypeOf[wloc[w].err][Job(w).query_name],
                                 !.error_message = ErrorMessageOf[wloc[w].err][Job(w).query_name],
                                 !.status = JOB_FAILED, !.completed_at = "now"]
       IN  IF SaveRaises(job)
           THEN /\ RunGoto(w, "abort", WithJob(w, job))
                /\ UNCHANGED jobs
           ELSE /\ jobs' = Saved(job)
                /\ IF wloc[w].err = "timeout"
                   THEN RunGoto(w, "finish", [WithJob(w, job) EXCEPT !.err = NULL])
                   ELSE RunGoto(w, AfterJob(wloc[w]), NextJob(WithJob(w, job)))
    /\ UNCHANGED <<oStatus, queue, reports, runs, apc, aloc, adminCalls, payVars, clsVars, verVars, createVars, auxVars>>

CompletedJobs(list) == Cardinality({k \in 1..Len(list) : list[k].status = JOB_COMPLETED})

OrderStatusForAnyCompleted(completed_jobs, total) ==
    IF completed_jobs > 0 THEN STATUS_PARTIAL_COMPLETE
    ELSE IF completed_jobs = total THEN STATUS_COMPLETED
    ELSE STATUS_FAILED

\* Step 7: the order's status from the run's query_jobs
OrderStatusFor(completed_jobs, total) ==
    IF completed_jobs = total THEN STATUS_COMPLETED
    ELSE IF completed_jobs > 0 THEN STATUS_PARTIAL_COMPLETE
    ELSE STATUS_FAILED

RunFinishRaises(w) ==
    /\ wpc[w] = "finish"
    /\ oStatus' = OrderStatusFor(CompletedJobs(wloc[w].jobs), Len(wloc[w].jobs))
    /\ RunEnd(w, "raised")
    /\ UNCHANGED <<queue, jobs, reports, runs, apc, aloc, adminCalls, payVars, clsVars, verVars, createVars, auxVars>>

\* order.save() with the computed status; the task returns
RunFinish(w) ==
    /\ wpc[w] = "finish"
    /\ oStatus' = OrderStatusFor(CompletedJobs(wloc[w].jobs), Len(wloc[w].jobs))
    /\ RunEnd(w, "returned")
    /\ UNCHANGED <<queue, jobs, reports, runs, apc, aloc, adminCalls, payVars, clsVars, verVars, createVars, auxVars>>

RunAbortKeepsStatus(w) ==
    /\ wpc[w] = "abort"
    /\ RunEnd(w, "raised")
    /\ UNCHANGED <<oStatus, queue, jobs, reports, runs, apc, aloc, adminCalls, payVars, clsVars, verVars, createVars, auxVars>>

\* except Exception: order.status = failed; order.save(); raise
RunAbort(w) ==
    /\ wpc[w] = "abort"
    /\ oStatus' = STATUS_FAILED
    /\ RunEnd(w, "raised")
    /\ UNCHANGED <<queue, jobs, reports, runs, apc, aloc, adminCalls, payVars, clsVars, verVars, createVars, auxVars>>

execute_wallet_analysis(w) ==
    \/ RunStart(w)
    \/ RunOrderMissing(w)
    \/ RunCreate(w)
    \/ RunRecreateDelete(w)
    \/ RunRecreateCreate(w)
    \/ RunJobStart(w)
    \/ RunSubmit(w)
    \/ RunPoll(w)
    \/ RunJobComplete(w)
    \/ RunJobFail(w)
    \/ RunFinish(w)
    \/ RunAbort(w)

----------------------------------------------------------------------------
(* Admin actions on the order's jobs, admin.py *)

AdminCall(a) ==
    /\ apc[a] = "idle"
    /\ adminCalls < MaxAdmin
    /\ adminCalls' = adminCalls + 1

AdminGoto(a, label, locals) ==
    /\ apc' = [apc EXCEPT ![a] = label]
    /\ aloc' = [aloc EXCEPT ![a] = locals]

(* WalletAnalysisOrderAdmin.rerun_wallet_analysis, one order selected *)

\* for order in queryset: the order row is read
RerunLoad ==
    /\ AdminCall("rerun")
    /\ AdminGoto("rerun", "delete", [status |-> oStatus, i |-> 1])
    /\ UNCHANGED <<oStatus, queue, jobs, reports, wpc, wloc, wres, runs, payVars, clsVars, verVars, createVars, auxVars>>

\* DuneQueryJob.objects.filter(order=order).delete()
RerunDelete ==
    /\ apc["rerun"] = "delete"
    /\ jobs' = {}
    /\ AdminGoto("rerun", "create", aloc["rerun"])
    /\ UNCHANGED <<oStatus, queue, reports, wpc, wloc, wres, runs, adminCalls, payVars, clsVars, verVars, createVars, auxVars>>

\* DuneQueryJob.objects.create for the next default query; an IntegrityError
\* is not caught and ends the action
RerunCreate ==
    /\ apc["rerun"] = "create"
    /\ LET i == aloc["rerun"].i
       IN  IF CanInsert(QueryNames[i])
           THEN /\ jobs' = jobs \cup {NewJob(FreshId, QueryNames[i])}
                /\ IF i < NumQueries
                   THEN AdminGoto("rerun", "create", [aloc["rerun"] EXCEPT !.i = i + 1])
                   ELSE AdminGoto("rerun", "saveOrder", aloc["rerun"])
           ELSE /\ AdminGoto("rerun", "idle", NoAdmin)
                /\ UNCHANGED jobs
    /\ UNCHANGED <<oStatus, queue, reports, wpc, wloc, wres, runs, adminCalls, payVars, clsVars, verVars, createVars, auxVars>>

\* if order.status != processing: order.status = processing; order.save()
RerunSaveOrder ==
    /\ apc["rerun"] = "saveOrder"
    /\ IF aloc["rerun"].status # STATUS_PROCESSING
       THEN oStatus' = STATUS_PROCESSING
       ELSE UNCHANGED oStatus
    /\ AdminGoto("rerun", "enqueue", aloc["rerun"])
    /\ UNCHANGED <<queue, jobs, reports, wpc, wloc, wres, runs, adminCalls, payVars, clsVars, verVars, createVars, auxVars>>

RerunEnqueue ==
    /\ apc["rerun"] = "enqueue"
    /\ async_task("rerun", API_TASK)
    /\ AdminGoto("rerun", "idle", NoAdmin)
    /\ UNCHANGED <<oStatus, jobs, reports, wpc, wloc, wres, runs, adminCalls, payVars, clsVars, verVars, createVars, auxVars>>

rerun_wallet_analysis ==
    \/ RerunLoad
    \/ RerunDelete
    \/ RerunCreate
    \/ RerunSaveOrder
    \/ RerunEnqueue

(* DuneQueryJobAdmin.retry_failed_queries, on the selected jobs of the order *)

\* the failed jobs among the selected ones; without any, nothing is done
RetryLoad(selected) ==
    /\ AdminCall("retry")
    /\ IF \E r \in jobs : r.id \in selected /\ r.status \in {JOB_FAILED, JOB_FAILED_NEEDS_REVIEW}
       THEN AdminGoto("retry", "delete", NoAdmin)
       ELSE AdminGoto("retry", "idle", NoAdmin)
    /\ UNCHANGED <<oStatus, queue, jobs, reports, wpc, wloc, wres, runs, payVars, clsVars, verVars, createVars, auxVars>>

RetryDeleteFailedOnly ==
    /\ apc["retry"] = "delete"
    /\ jobs' = {r \in jobs : r.status \notin {JOB_FAILED, JOB_FAILED_NEEDS_REVIEW}}
    /\ AdminGoto("retry", "enqueue", NoAdmin)
    /\ UNCHANGED <<oStatus, queue, reports, wpc, wloc, wres, runs, adminCalls, payVars, clsVars, verVars, createVars, auxVars>>

\* DuneQueryJob.objects.filter(order_id=order_id).delete()
RetryDelete ==
    /\ apc["retry"] = "delete"
    /\ jobs' = {}
    /\ AdminGoto("retry", "enqueue", NoAdmin)
    /\ UNCHANGED <<oStatus, queue, reports, wpc, wloc, wres, runs, adminCalls, payVars, clsVars, verVars, createVars, auxVars>>

RetryEnqueue ==
    /\ apc["retry"] = "enqueue"
    /\ async_task("retry", API_TASK)
    /\ AdminGoto("retry", "idle", NoAdmin)
    /\ UNCHANGED <<oStatus, jobs, reports, wpc, wloc, wres, runs, adminCalls, payVars, clsVars, verVars, createVars, auxVars>>

retry_failed_queries ==
    \/ \E selected \in SUBSET {r.id : r \in jobs} : selected # {} /\ RetryLoad(selected)
    \/ RetryDelete
    \/ RetryEnqueue

----------------------------------------------------------------------------
(* The analysis of a paid order: verify_payment_api has confirmed the       *)
(* payment, saved the order as payment_received and enqueued the task       *)

InitRun ==
    /\ oStatus = STATUS_PAYMENT_RECEIVED
    /\ queue = <<[func |-> API_TASK, by |-> "api"]>>
    /\ payment = [status |-> PAY_CONFIRMED, transaction_signature |-> "sigGood",
                  confirmed_at |-> "now"]
    /\ aged = FALSE
    /\ chain = <<"sigGood">>
    /\ pc = [h \in Handlers |-> "idle"]
    /\ loc = [h \in Handlers |-> NoLoc]
    /\ res = [h \in Handlers |-> IF h = "api" THEN "verified" ELSE "none"]
    /\ calls = [h \in Handlers |-> IF h = "api" THEN 1 ELSE 0]
    /\ hist = [sigWrites |-> 1, unverified |-> FALSE, nonPending |-> FALSE,
               confirms |-> [h \in Handlers |-> IF h = "api" THEN 1 ELSE 0]]
    /\ RunAtRest
    /\ ClsAtRest
    /\ VerAtRest
    /\ CreateAtRest
    /\ AuxAtRest

NextRun ==
    \/ \E w \in Workers : execute_wallet_analysis(w)
    \/ rerun_wallet_analysis
    \/ retry_failed_queries

SpecRun == InitRun /\ [][NextRun]_vars

----------------------------------------------------------------------------
(* Properties of the analysis run *)

\* C7: when a run of execute_wallet_analysis leaves its job loop with N jobs
\* in query_jobs of which M are completed, the status it saves on the order is
\* completed if and only if M = N, partial_complete if and only if 0 < M < N,
\* and failed if and only if M = 0.
C7_StatusFromCompletedJobs ==
    [][\A w \in Workers :
          (wpc[w] = "finish" /\ wpc'[w] = "idle") =>
              LET N == Len(wloc[w].jobs)
                  M == Cardinality({k \in 1..N : wloc[w].jobs[k].status = JOB_COMPLETED})
              IN  /\ (oStatus' = STATUS_COMPLETED) <=> (M = N)
                  /\ (oStatus' = STATUS_PARTIAL_COMPLETE) <=> (0 < M /\ M < N)
                  /\ (oStatus' = STATUS_FAILED) <=> (M = 0)]_vars

\* a run has returned after one query completed and the other failed
C7_Witness ==
    /\ oStatus = STATUS_PARTIAL_COMPLETE
    /\ \E w \in Workers : wres[w] = "returned"
    /\ \E r \in jobs : r.status = JOB_COMPLETED
    /\ \E r \in jobs : r.status = JOB_FAILED

\* the order's place on pending_payment -> payment_received -> processing ->
\* {completed, partial_complete, failed}
Rank(status) ==
    CASE status = STATUS_PENDING_PAYMENT -> 0
      [] status = STATUS_PAYMENT_RECEIVED -> 1
      [] status = STATUS_PROCESSING -> 2
      [] status \in {STATUS_COMPLETED, STATUS_PARTIAL_COMPLETE, STATUS_FAILED} -> 3

\* C8: the order's status never moves backwards along pending_payment ->
\* payment_received -> processing -> {completed, partial_complete, failed},
\* duplicate deliveries of execute_wallet_analysis included, as long as no
\* admin action has been used on the order.
C8_StatusNeverRegresses ==
    [][adminCalls' = 0 => Rank(oStatus') >= Rank(oStatus)]_vars

\* C9: at every moment of any interleaving of analysis runs, admin reruns and
\* admin retries on the order, no two DuneQueryJob rows of the order carry the
\* same query_name.
C9_OneJobPerQueryName ==
    \A r1 \in jobs : \A r2 \in jobs : r1.query_name = r2.query_name => r1 = r2

\* a create of a second row for a name has just been rejected, the first row
\* still in the table
C9_Witness ==
    \E w \in Workers :
        /\ wpc[w] = "recreateDelete"
        /\ \E r \in jobs : r.query_name = QueryNames[wloc[w].i]

\* C11: a job that fails because the polling loop of execute_wallet_analysis
\* ran past max_wait_time (its own TimeoutError) is saved as failed with
\* error type network_error.
C11_TimeoutIsNetworkError ==
    [][\A w \in Workers :
          (wpc[w] = "jobFail" /\ wloc[w].err = "timeout" /\ wpc'[w] = "finish") =>
              \E r \in jobs' :
                  /\ r.id = Job(w).id
                  /\ r.status = JOB_FAILED
                  /\ r.error_type = ERROR_NETWORK]_vars

\* dune.run_query raised for the job and the per-job handler recorded it
SubmissionFailed(job) ==
    /\ job.status = JOB_FAILED
    /\ job.error_type = ERROR_RATE_LIMIT
    /\ job.dune_execution_id = NULL

\* the run of worker w ends in this step, every one of its jobs having failed
\* at submission
EndsAfterAllSubmissionsFailed(w) ==
    /\ wpc[w] = "finish"
    /\ wpc'[w] = "idle"
    /\ \A k \in 1..Len(wloc[w].jobs) : SubmissionFailed(wloc[w].jobs[k])

C13_EscapedExceptionFailsOrder ==
    [][/\ \A w \in Workers :
              (wpc[w] = "abort" /\ wpc'[w] = "idle") =>
                  wres'[w] = "raised" /\ oStatus' = STATUS_FAILED
       /\ (runs' # runs /\ wpc' = wpc) =>
              /\ \E w \in Workers : wres'[w] = "raised"
              /\ UNCHANGED <<oStatus, jobs, reports, payment>>]_vars

\* a run without DUNE_API_KEY has raised before creating any job, the order
\* left failed
C13_Witness ==
    /\ oStatus = STATUS_FAILED
    /\ jobs = {}
    /\ adminCalls = 0
    /\ \E w \in Workers : wpc[w] = "idle" /\ wres[w] = "raised"

----------------------------------------------------------------------------
(* verify_transaction_on_chain, solana_utils.py *)

\* the largest amount, in base units, of an argument or an instruction
MaxAmount == 2

\* the most instructions a transaction's message carries
MaxInstructions == 2

\* str(recipient_pubkey) and str(reference_pubkey)
RECIPIENT == "recipient"
REFERENCE == "reference"

\* Pubkey.find_program_address([recipient, token_program_id, mint], associated_token_program_id)
EXPECTED_ATA == "ata"

\* the address tests.py derives, from the seeds [b"ata", recipient, token_program_id, mint]
TEST_ATA == "ataOfTest"

\* an account that is none of them
OTHER_ACCOUNT == "other"

TOKEN_PROGRAM_ID == "TokenkegQfeZyiNwAJbNbGKPFXCWuBvf9Ss623VQ5DA"
SYSTEM_PROGRAM_ID == "11111111111111111111111111111111"

\* an instruction of another program
OtherInstruction ==
    [program |-> SYSTEM_PROGRAM_ID, parsed |-> "none", amount |-> 0, tokenAmount |-> 0,
     destination |-> NULL, accounts |-> {}]

\* token-program instructions without a parsed payload, by their accounts
RawTokenInstructions ==
    {[program |-> TOKEN_PROGRAM_ID, parsed |-> "none", amount |-> 0, tokenAmount |-> 0,
      destination |-> NULL, accounts |-> a] : a \in {{}, {EXPECTED_ATA}, {TEST_ATA}}}

\* a parsed token-program instruction that is no transfer
ApproveInstruction ==
    [program |-> TOKEN_PROGRAM_ID, parsed |-> "approve", amount |-> 0, tokenAmount |-> 0,
     destination |-> NULL, accounts |-> {}]

\* parsed 'transfer' carries info.amount, parsed 'transferChecked' info.tokenAmount.amount
TransferInstructions ==
    {[program |-> TOKEN_PROGRAM_ID, parsed |-> "transfer", amount |-> a, tokenAmount |-> 0,
      destination |-> d, accounts |-> {}] :
        a \in 0..MaxAmount, d \in {EXPECTED_ATA, RECIPIENT, OTHER_ACCOUNT}}
    \cup
    {[program |-> TOKEN_PROGRAM_ID, parsed |-> "transferChecked", amount |-> 0, tokenAmount |-> a,
      destination |-> d, accounts |-> {}] :
        a \in 0..MaxAmount, d \in {EXPECTED_ATA, RECIPIENT, OTHER_ACCOUNT}}

Instructions ==
    {OtherInstruction, ApproveInstruction} \cup RawTokenInstructions \cup TransferInstructions

InstructionLists == UNION {[1..n -> Instructions] : n \in 0..MaxInstructions}

Transactions ==
    [err : {"none", "meta", "status"},
     account_keys : SUBSET {RECIPIENT, EXPECTED_ATA, TEST_ATA, REFERENCE},
     instructions : InstructionLists]

\* if tx_err: from meta.err, or from get_signature_statuses when meta has none
tx_errNever(t) == FALSE

tx_err(t) == t.err # "none"

recipient_found(t) == RECIPIENT \in t.account_keys

recipient_ata_found(t) == EXPECTED_ATA \in t.account_keys

reference_foundAlways(t) == TRUE

reference_found(t) == REFERENCE \in t.account_keys

\* int(info.get('amount', '0')) or int(info.get('tokenAmount', {}).get('amount', '0'))
transfer_amount(instruction) ==
    IF instruction.parsed = "transfer" THEN instruction.amount ELSE instruction.tokenAmount

AmountVerifiedExact(amount, expected) == amount = expected

\* if transfer_amount >= expected_amount: amount_verified = True
AmountVerified(amount, expected) == amount >= expected

\* a mutant of the heuristic: any token-program instruction without payload counts
AtaParticipatesAlways(instruction) == TRUE

\* str(expected_ata) in inst_pubkeys
AtaParticipates(instruction) == EXPECTED_ATA \in instruction.accounts

\* the loop over message.instructions, which stops at the first parsed
\* transfer of the token program, or at the first token-program instruction
\* without a parsed payload that has the expected ATA among its accounts;
\* the destination is printed and decides nothing
RECURSIVE ScanInstructions(_, _)
ScanInstructions(instructions, expected) ==
    IF instructions = <<>>
    THEN [token_transfer_verified |-> FALSE, amount_verified |-> FALSE]
    ELSE LET instruction == Head(instructions)
         IN  IF instruction.program # TOKEN_PROGRAM_ID
             THEN ScanInstructions(Tail(instructions), expected)
             ELSE IF instruction.parsed \in {"transfer", "transferChecked"}
             THEN [token_transfer_verified |-> TRUE,
                   amount_verified |-> AmountVerified(transfer_amount(instruction), expected)]
             ELSE IF instruction.parsed = "none" /\ AtaParticipates(instruction)
             THEN [token_transfer_verified |-> TRUE, amount_verified |-> TRUE]
             ELSE ScanInstructions(Tail(instructions), expected)

\* the amounts of the parsed transfers of the token program
RECURSIVE TransferAmounts(_)
TransferAmounts(instructions) ==
    IF instructions = <<>> THEN <<>>
    ELSE LET instruction == Head(instructions)
             rest == TransferAmounts(Tail(instructions))
         IN  IF instruction.program = TOKEN_PROGRAM_ID
                  /\ instruction.parsed \in {"transfer", "transferChecked"}
             THEN <<transfer_amount(instruction)>> \o rest
             ELSE rest

RECURSIVE Sum(_)
Sum(amounts) == IF amounts = <<>> THEN 0 ELSE Head(amounts) + Sum(Tail(amounts))

\* a mutant of the verdict: the amounts of the transfers are added up
VerifyTransactionSumming(answer, t, expected) ==
    IF answer = "unreachable" THEN "false"
    ELSE IF answer = "not_found" THEN "false"
    ELSE IF tx_err(t) THEN "false"
    ELSE IF ~(recipient_found(t) \/ recipient_ata_found(t)) THEN "false"
    ELSE IF ~reference_found(t) THEN "false"
    ELSE LET scan == ScanInstructions(t.instructions, expected)
         IN  IF ~scan.token_transfer_verified THEN "false"
             ELSE IF ~(scan.amount_verified \/ Sum(TransferAmounts(t.instructions)) >= expected)
             THEN "false"
             ELSE "true"

\* a mutant of the verdict: any transfer of a sufficient amount is enough
VerifyTransactionAnyTransfer(answer, t, expected) ==
    IF answer = "unreachable" THEN "false"
    ELSE IF answer = "not_found" THEN "false"
    ELSE IF tx_err(t) THEN "false"
    ELSE IF ~(recipient_found(t) \/ recipient_ata_found(t)) THEN "false"
    ELSE IF ~reference_found(t) THEN "false"
    ELSE LET scan == ScanInstructions(t.instructions, expected)
             amounts == TransferAmounts(t.instructions)
         IN  IF ~scan.token_transfer_verified THEN "false"
             ELSE IF ~(scan.amount_verified \/ \E k \in 1..Len(amounts) : amounts[k] >= expected)
             THEN "false"
             ELSE "true"

\* what the call returns; every exception, of the RPC client too, is caught
\* and answered with False
VerifyTransaction(answer, t, expected) ==
    IF answer = "unreachable" THEN "false"
    ELSE IF answer = "not_found" THEN "false"
    ELSE IF tx_err(t) THEN "false"
    ELSE IF ~(recipient_found(t) \/ recipient_ata_found(t)) THEN "false"
    ELSE IF ~reference_found(t) THEN "false"
    ELSE LET scan == ScanInstructions(t.instructions, expected)
         IN  IF ~scan.token_transfer_verified THEN "false"
             ELSE IF ~scan.amount_verified THEN "false"
             ELSE "true"

VerifyStep ==
    /\ verdict = "pending"
    /\ verdict' = VerifyTransaction(rpc, tx, expected_amount)
    /\ UNCHANGED <<rpc, tx, expected_amount, oStatus, queue, payVars, runVars, clsVars, createVars, auxVars>>

\* a pending payment, a signature submitted, the node's answer to get_transaction
InitVerify ==
    /\ rpc \in {"found", "not_found", "unreachable"}
    /\ tx \in IF rpc = "found" THEN Transactions ELSE {NoTx}
    /\ expected_amount \in 1..MaxAmount
    /\ verdict = "pending"
    /\ oStatus = STATUS_PENDING_PAYMENT
    /\ queue = <<>>
    /\ payment = [status |-> PAY_PENDING, transaction_signature |-> NULL, confirmed_at |-> NULL]
    /\ aged = FALSE
    /\ chain = <<>>
    /\ pc = [h \in Handlers |-> "idle"]
    /\ loc = [h \in Handlers |-> NoLoc]
    /\ res = [h \in Handlers |-> "none"]
    /\ calls = [h \in Handlers |-> 0]
    /\ hist = [sigWrites |-> 0, unverified |-> FALSE, nonPending |-> FALSE,
               confirms |-> [h \in Handlers |-> 0]]
    /\ RunAtRest
    /\ ClsAtRest
    /\ CreateAtRest
    /\ AuxAtRest

NextVerify == VerifyStep

SpecVerify == InitVerify /\ [][NextVerify]_vars

----------------------------------------------------------------------------
(* Properties of verify_transaction_on_chain *)

Returned == verdict # "pending"

\* the positions of the token-program instructions of the transaction
TokenInstructions ==
    {k \in 1..Len(tx.instructions) : tx.instructions[k].program = TOKEN_PROGRAM_ID}

ParsedTransfer(instruction) == instruction.parsed \in {"transfer", "transferChecked"}

\* what the instruction moves
Moved(instruction) ==
    IF instruction.parsed = "transfer" THEN instruction.amount ELSE instruction.tokenAmount

\* C14: verify_transaction_on_chain returns false for every transaction whose
\* account keys do not contain the reference key, whatever its recipient,
\* instructions and amount.
C14_ReferenceRequired ==
    (Returned /\ REFERENCE \notin tx.account_keys) => verdict = "false"

\* rejected for the missing reference alone: the recipient is there and a
\* transfer of a sufficient amount goes to its token account
C14_Witness ==
    /\ verdict = "false"
    /\ rpc = "found"
    /\ tx.err = "none"
    /\ tx.account_keys = {RECIPIENT, EXPECTED_ATA}
    /\ Len(tx.instructions) = 1
    /\ ParsedTransfer(tx.instructions[1])
    /\ tx.instructions[1].destination = EXPECTED_ATA
    /\ Moved(tx.instructions[1]) >= expected_amount

\* a successful transaction with the recipient or its token account and the
\* reference among its keys, whose only token-program instruction is a parsed
\* transfer to the recipient's token account
OneTransferToRecipient ==
    /\ rpc = "found"
    /\ tx.err = "none"
    /\ RECIPIENT \in tx.account_keys \/ EXPECTED_ATA \in tx.account_keys
    /\ REFERENCE \in tx.account_keys
    /\ Cardinality(TokenInstructions) = 1
    /\ \A k \in TokenInstructions :
           /\ ParsedTransfer(tx.instructions[k])
           /\ tx.instructions[k].destination = EXPECTED_ATA

\* C15: for such a transaction verify_transaction_on_chain returns true
\* exactly when the transferred amount is greater than or equal to the
\* expected amount.
C15_AmountAtLeastExpected ==
    (Returned /\ OneTransferToRecipient) =>
        \A k \in TokenInstructions :
            (verdict = "true") <=> (Moved(tx.instructions[k]) >= expected_amount)

\* a transfer of more than the expected amount has been accepted
C15_Witness ==
    /\ verdict = "true"
    /\ OneTransferToRecipient
    /\ \E k \in TokenInstructions : Moved(tx.instructions[k]) > expected_amount

\* C16: a transaction whose token-program instructions are all parsed
\* transfers to a destination that is neither the recipient nor its
\* associated token account is not accepted, whatever the amounts.
C16_DestinationRequired ==
    (/\ Returned
     /\ TokenInstructions # {}
     /\ \A k \in TokenInstructions :
            /\ ParsedTransfer(tx.instructions[k])
            /\ tx.instructions[k].destination \notin {RECIPIENT, EXPECTED_ATA})
        => verdict # "true"

\* C17: when the chain reader cannot be reached the caller of
\* verify_transaction_on_chain does not observe the result "verification
\* failed" (false).
C17_UnreachableIsNotFalse ==
    (Returned /\ rpc = "unreachable") => verdict # "false"

\* C18: verify_transaction_on_chain returns false whenever the transaction is
\* not found by its signature and whenever the fetched transaction carries a
\* transaction-level error, regardless of its accounts and instructions.
C18_MissingOrFailedIsFalse ==
    (Returned /\ (rpc = "not_found" \/ (rpc = "found" /\ tx.err # "none"))) =>
        verdict = "false"

\* rejected for its error alone: a failed transaction with the recipient, the
\* reference and a sufficient transfer to the recipient's token account
C18_Witness ==
    /\ verdict = "false"
    /\ rpc = "found"
    /\ tx.err = "meta"
    /\ tx.account_keys = {RECIPIENT, EXPECTED_ATA, REFERENCE}
    /\ Len(tx.instructions) = 1
    /\ ParsedTransfer(tx.instructions[1])
    /\ tx.instructions[1].destination = EXPECTED_ATA
    /\ Moved(tx.instructions[1]) >= expected_amount

\* C19: verify_transaction_on_chain returns true for a successful transaction
\* in which the recipient appears only as the associated token account that
\* tests.py derives, the reference is among the account keys and a
\* token-program instruction has that token account among its accounts.
C19_TestAtaAccepted ==
    (/\ Returned
     /\ rpc = "found"
     /\ tx.err = "none"
     /\ TEST_ATA \in tx.account_keys
     /\ RECIPIENT \notin tx.account_keys
     /\ REFERENCE \in tx.account_keys
     /\ \E k \in TokenInstructions : TEST_ATA \in tx.instructions[k].accounts)
        => verdict = "true"

----------------------------------------------------------------------------
(* Properties of the sweep *)

\* a run of check_pending_payments starts in this step
SweepStarts == pc["sweep"] = "idle" /\ calls'["sweep"] = calls["sweep"] + 1

\* C20: a run of check_pending_payments that finds the payment confirmed, or
\* created less than the grace window ago, searches no transaction for it and
\* changes neither the payment, nor its order, nor the task queue; the sweep
\* goes on to its writes only for a payment it found pending and older than
\* the grace window.
C20_SweepTakesOnlyAgedPending ==
    [][(SweepStarts /\ ~(payment.status = PAY_PENDING /\ aged)) =>
           /\ pc'["sweep"] = "idle"
           /\ loc'["sweep"] = NoLoc
           /\ UNCHANGED <<payment, oStatus, queue, hist>>]_vars

\* the sweep has run and left alone a pending payment younger than the grace
\* window whose valid transaction is on the chain
C20_Witness ==
    /\ calls["sweep"] > 0
    /\ pc["sweep"] = "idle"
    /\ ~aged
    /\ payment.status = PAY_PENDING
    /\ search_transactions_by_reference = "sigGood"

----------------------------------------------------------------------------
(* The two confirmation paths compared *)

\* handler h alone has confirmed the payment and every handler has returned
SoloConfirmed(h) ==
    /\ AllIdle
    /\ hist.sigWrites = 1
    /\ hist.confirms[h] = 1
    /\ Len(queue) = 1
    /\ queue[1].by = h

\* C21: for the same pending payment and the same valid signature, a
\* confirmation by check_pending_payments leaves what a confirmation by
\* verify_payment_api leaves: the payment confirmed with that signature, the
\* order payment_received, and the same task enqueued for the order.
C21_SweepLeavesWhatApiLeaves ==
    \A h \in {"api", "sweep"} :
        SoloConfirmed(h) =>
            /\ payment = [status |-> PAY_CONFIRMED, transaction_signature |-> "sigGood",
                          confirmed_at |-> "now"]
            /\ oStatus = STATUS_PAYMENT_RECEIVED
            /\ queue[1].func = API_TASK

----------------------------------------------------------------------------
(* Properties of the job table and the reports *)

\* no run and no admin action is under way
Quiescent ==
    /\ \A w \in Workers : wpc[w] = "idle"
    /\ \A a \in AdminActions : apc[a] = "idle"

CompletedRows(name) == {r \in jobs : r.query_name = name /\ r.status = JOB_COMPLETED}

\* C22: after any sequence of analysis runs and admin retries, the order has
\* as many ReportFile rows as DuneQueryJob rows in status completed: one
\* report for each completed job and none without one.
C22_OneReportPerCompletedJob ==
    Quiescent =>
        \A k \in 1..NumQueries :
            reports[QueryNames[k]] = Cardinality(CompletedRows(QueryNames[k]))

----------------------------------------------------------------------------
(* Properties of the payment's status *)

\* C23: in no reachable state is the payment in status finalized: none of the
\* confirmation paths writes it.
C23_NeverFinalized == payment.status # PAY_FINALIZED

\* the payment has been confirmed, by two saves of the handlers
C23_Witness ==
    /\ payment.status = PAY_CONFIRMED
    /\ hist.sigWrites >= 2
    /\ AllIdle

----------------------------------------------------------------------------
(* create_order_view, views.py, and the payment rows it stores *)

\* the most orders that are created
MaxOrders == 3

\* the public keys Keypair() can come up with
ReferenceKeys == {"k1", "k2", "k3"}

\* reference = models.CharField(unique=True): the INSERT collides
ReferenceTakenNever(key) == FALSE

ReferenceTaken(key) == \E p \in payments : p.reference = key

\* POST with a valid wallet address: WalletAnalysisOrder.objects.create; without
\* SOLANA_RECIPIENT_ADDRESS the view returns its error page
CreateOrder(r) ==
    /\ cpc[r] = "idle"
    /\ Cardinality(orders) < MaxOrders
    /\ LET id == Cardinality(orders) + 1
       IN  /\ orders' = orders \cup {id}
           /\ \E recipient \in BOOLEAN :
                  IF recipient
                  THEN /\ cpc' = [cpc EXCEPT ![r] = "payment"]
                       /\ cord' = [cord EXCEPT ![r] = id]
                       /\ UNCHANGED cres
                  ELSE /\ cres' = [cres EXCEPT ![r] = "error"]
                       /\ UNCHANGED <<cpc, cord>>
    /\ UNCHANGED <<payments, oStatus, queue, payVars, runVars, clsVars, verVars, auxVars>>

\* generate_solana_pay_url draws the reference; SolanaPayment.objects.create
\* stores the pending payment, or raises IntegrityError and the request ends
CreatePayment(r) ==
    /\ cpc[r] = "payment"
    /\ \E reference \in ReferenceKeys :
           IF ReferenceTaken(reference)
           THEN /\ cres' = [cres EXCEPT ![r] = "raised"]
                /\ UNCHANGED payments
           ELSE /\ cres' = [cres EXCEPT ![r] = "redirect"]
                /\ payments' = payments \cup
                       {[order |-> cord[r], reference |-> reference, status |-> PAY_PENDING]}
    /\ cpc' = [cpc EXCEPT ![r] = "idle"]
    /\ cord' = [cord EXCEPT ![r] = 0]
    /\ UNCHANGED <<orders, oStatus, queue, payVars, runVars, clsVars, verVars, auxVars>>

create_order_view(r) ==
    \/ CreateOrder(r)
    \/ CreatePayment(r)

\* payment.save() of a confirmation path on the payment it loaded: every
\* field of the object is written back, the status as confirmed
ConfirmPayment ==
    /\ \E p \in payments :
           /\ p.status = PAY_PENDING
           /\ payments' = (payments \ {p}) \cup {[p EXCEPT !.status = PAY_CONFIRMED]}
    /\ UNCHANGED <<orders, cpc, cord, cres, oStatus, queue, payVars, runVars, clsVars, verVars, auxVars>>

InitCreate ==
    /\ CreateAtRest
    /\ AuxAtRest
    /\ oStatus = STATUS_PENDING_PAYMENT
    /\ queue = <<>>
    /\ payment = [status |-> PAY_PENDING, transaction_signature |-> NULL, confirmed_at |-> NULL]
    /\ aged = FALSE
    /\ chain = <<>>
    /\ pc = [h \in Handlers |-> "idle"]
    /\ loc = [h \in Handlers |-> NoLoc]
    /\ res = [h \in Handlers |-> "none"]
    /\ calls = [h \in Handlers |-> 0]
    /\ hist = [sigWrites |-> 0, unverified |-> FALSE, nonPending |-> FALSE,
               confirms |-> [h \in Handlers |-> 0]]
    /\ RunAtRest
    /\ ClsAtRest
    /\ VerAtRest

NextCreate ==
    \/ \E r \in Requests : create_order_view(r)
    \/ ConfirmPayment

SpecCreate == InitCreate /\ [][NextCreate]_vars

\* C24: no two payments ever share a reference key; the creation of a payment
\* with a reference that is already stored is rejected and changes no row;
\* and no operation changes the reference of a stored payment.
C24_ReferenceUniqueAndFixed ==
    [][/\ \A p \in payments' : \A q \in payments' :
              p.reference = q.reference => p.order = q.order
       /\ \A r \in Requests :
              (cpc[r] = "payment" /\ cpc'[r] = "idle" /\ cres'[r] = "raised") =>
                  UNCHANGED <<payments, orders>>
       /\ \A p \in payments : \E q \in payments' :
              q.order = p.order /\ q.reference = p.reference]_vars

\* a creation has been rejected for its reference, and a stored payment has
\* been confirmed since it was created
C24_Witness ==
    /\ \E r \in Requests : cpc[r] = "idle" /\ cres[r] = "raised"
    /\ \E p \in payments : p.status = PAY_CONFIRMED
    /\ Cardinality(payments) >= 2

----------------------------------------------------------------------------
(* Properties of the admin retry and of the run's job loop *)

\* retry_failed_queries is called in this step
RetryStarts ==
    /\ adminCalls' = adminCalls + 1
    /\ apc["retry"] = "idle"
    /\ apc'["rerun"] = apc["rerun"]

FailedRows == {r \in jobs : r.status \in {JOB_FAILED, JOB_FAILED_NEEDS_REVIEW}}

LaterJobs(w) == {k \in 1..Len(wloc[w].jobs) : k > wloc[w].i}

\* C26: when a job of a run fails by the TimeoutError of the polling loop, the
\* run starts no later job: it leaves the loop with every later job still
\* queued, without start time and without execution identifier, and the
\* status it then saves on the order counts the completed jobs so far.
C26_TimeoutStopsTheRun ==
    [][\A w \in Workers :
          /\ (wpc[w] = "jobFail" /\ wloc[w].err = "timeout" /\ wpc'[w] # "jobFail") =>
                 /\ wpc'[w] \in {"finish", "abort"}
                 /\ wloc'[w].i = wloc[w].i
                 /\ \A k \in LaterJobs(w) :
                        /\ wloc'[w].jobs[k].status = JOB_QUEUED
                        /\ wloc'[w].jobs[k].started_at = NULL
                        /\ wloc'[w].jobs[k].dune_execution_id = NULL
          /\ (wpc[w] = "finish" /\ wpc'[w] = "idle" /\ LaterJobs(w) # {}) =>
                 /\ \A k \in LaterJobs(w) : wloc[w].jobs[k].status = JOB_QUEUED
                 /\ oStatus' = IF \E k \in 1..wloc[w].i : wloc[w].jobs[k].status = JOB_COMPLETED
                               THEN STATUS_PARTIAL_COMPLETE
                               ELSE STATUS_FAILED]_vars

\* the first job of a run has timed out and the run is about to save the
\* order's status, its second job never started
C26_Witness ==
    \E w \in Workers :
        /\ wpc[w] = "finish"
        /\ wloc[w].i = 1
        /\ wloc[w].jobs[1].status = JOB_FAILED
        /\ wloc[w].jobs[2].status = JOB_QUEUED

\* the handler of a failed job of w finishes, for a failure that is no timeout
FailureHandled(w) ==
    /\ wpc[w] = "jobFail"
    /\ wloc[w].err # "timeout"
    /\ wpc'[w] # "jobFail"

\* the row of the job w works on is stored as failed, with the type and the
\* first 500 characters of the text of its error, and a completion time
StoredFailed(w) ==
    \E r \in jobs' :
        /\ r.id = Job(w).id
        /\ r.status = JOB_FAILED
        /\ r.error_type = Classify(ErrorText(wloc[w].err, r.query_name))
        /\ Len(r.error_message) <= 500
        /\ r.error_message = SubSeq(ErrorText(wloc[w].err, r.query_name), 1, Len(r.error_message))
        /\ Len(r.error_message) < 500 => r.error_message = ErrorText(wloc[w].err, r.query_name)
        /\ r.completed_at # NULL

\* C27: when a job fails for a reason other than a timeout, its row is marked
\* failed with the classified error type, the message cut to 500 characters
\* and a completion time, the run goes on with its next job, and no other
\* row of the job table changes.
C27_FailureIsRecordedAndRunGoesOn ==
    [][\A w \in Workers :
          FailureHandled(w) =>
              /\ StoredFailed(w)
              /\ wpc'[w] = AfterJob(wloc[w])
              /\ \A r \in jobs : r.id # Job(w).id => r \in jobs']_vars

\* the status Step 7 would compute from the rows stored for the order
StatusOfStoredJobs ==
    OrderStatusFor(Cardinality({r \in jobs : r.status = JOB_COMPLETED}), Cardinality(jobs))

\* C28: the status a run saves on the order at its end is the one that the
\* DuneQueryJob rows stored for the order at that moment give, whatever a
\* second run or an admin action has done to those rows meanwhile.
C28_StatusAgreesWithStoredJobs ==
    [][\A w \in Workers :
          (wpc[w] = "finish" /\ wpc'[w] = "idle" /\ jobs # {}) =>
              oStatus' = StatusOfStoredJobs]_vars

\* the positions of the run's list whose job object is running
RunningJobs(w) == {k \in 1..Len(wloc[w].jobs) : wloc[w].jobs[k].status = JOB_RUNNING}

\* the stored rows of the run's jobs that are running
RunningRows(w) ==
    {r \in jobs : r.status = JOB_RUNNING /\ \E k \in 1..Len(wloc[w].jobs) : wloc[w].jobs[k].id = r.id}

\* C29: a run works on its jobs one after another: at most one of its jobs
\* is running at any time, in its list and in the job table, and when a job
\* is running every earlier job of the run is completed or failed.
C29_OneJobAtATime ==
    \A w \in Workers :
        /\ Cardinality(RunningJobs(w)) <= 1
        /\ Cardinality(RunningRows(w)) <= 1
        /\ \A k \in RunningJobs(w) :
               /\ k = wloc[w].i
               /\ \A j \in 1..(k - 1) : wloc[w].jobs[j].status \in {JOB_COMPLETED, JOB_FAILED}

\* the second job of a run is running, after the first one completed
C29_Witness ==
    \E w \in Workers :
        /\ wpc[w] = "poll"
        /\ wloc[w].i = 2
        /\ wloc[w].jobs[1].status = JOB_COMPLETED
        /\ wloc[w].jobs[2] \in RunningRows(w)

\* what the polling loop and the download can raise
PollErrors == {"state_failed", "timeout", "connection"}

\* the row was saved by the handler of a failure of that kind
FailedBy(r, err) ==
    /\ r.status = JOB_FAILED
    /\ r.error_message = ErrorText(err, r.query_name)

\* C30: the execution id that the submission returns is on the job, and
\* saved, before the first poll: a job that is polled, or that failed in the
\* polling loop or the download, has a dune_execution_id, and a job whose
\* submission failed has none.
C30_ExecutionIdBeforePolling ==
    /\ \A w \in Workers :
           /\ wpc[w] \in {"poll", "complete"} =>
                  /\ Job(w).dune_execution_id # NULL
                  /\ \A r \in jobs : r.id = Job(w).id => r.dune_execution_id # NULL
           /\ (wpc[w] = "jobFail" /\ wloc[w].err \in PollErrors) => Job(w).dune_execution_id # NULL
           /\ (wpc[w] = "jobFail" /\ wloc[w].err = "rate_limit") => Job(w).dune_execution_id = NULL
    /\ \A r \in jobs :
           /\ (\E err \in PollErrors : FailedBy(r, err)) => r.dune_execution_id # NULL
           /\ FailedBy(r, "rate_limit") => r.dune_execution_id = NULL

\* one stored job failed in the polling loop and one failed at its submission
C30_Witness ==
    \E r1, r2 \in jobs :
        /\ FailedBy(r1, "state_failed")
        /\ r1.dune_execution_id # NULL
        /\ FailedBy(r2, "rate_limit")
        /\ r2.dune_execution_id = NULL

----------------------------------------------------------------------------
(* The polling loop of execute_wallet_analysis *)

max_wait_time == 1800
poll_interval == 10

\* what status.state can be: the two values the loop tests for, and the others
QUERY_STATE_COMPLETED == "QUERY_STATE_COMPLETED"
TerminalFailures == {"QUERY_STATE_FAILED", "QUERY_STATE_CANCELLED"}
OtherStates == {"QUERY_STATE_PENDING", "QUERY_STATE_EXECUTING"}
ExecutionStates == {QUERY_STATE_COMPLETED} \cup TerminalFailures \cup OtherStates

\* a mutant of the loop body: a failed or cancelled state is slept on as well
PollStatusSleepsOnFailure ==
    /\ ppc = "loop"
    /\ elapsed_time < max_wait_time
    /\ polls' = polls + 1
    /\ \E answer \in ExecutionStates :
           /\ state' = answer
           /\ IF answer = QUERY_STATE_COMPLETED
              THEN ppc' = "after" /\ UNCHANGED <<elapsed_time, ended>>
              ELSE /\ elapsed_time' = elapsed_time + poll_interval
                   /\ UNCHANGED <<ppc, ended>>
    /\ UNCHANGED <<oStatus, queue, payVars, runVars, clsVars, verVars, createVars, ataVars, solVars>>

\* one pass of the while body: dune.get_execution_status, break on completed,
\* raise on failed or cancelled, otherwise time.sleep and elapsed_time += poll_interval
PollStatus ==
    /\ ppc = "loop"
    /\ elapsed_time < max_wait_time
    /\ polls' = polls + 1
    /\ \E answer \in ExecutionStates :
           /\ state' = answer
           /\ IF answer = QUERY_STATE_COMPLETED
              THEN ppc' = "after" /\ UNCHANGED <<elapsed_time, ended>>
              ELSE IF answer \in TerminalFailures
              THEN ppc' = "done" /\ ended' = "failed" /\ UNCHANGED elapsed_time
              ELSE /\ elapsed_time' = elapsed_time + poll_interval
                   /\ UNCHANGED <<ppc, ended>>
    /\ UNCHANGED <<oStatus, queue, payVars, runVars, clsVars, verVars, createVars, ataVars, solVars>>

\* the while condition is false
PollExhausted ==
    /\ ppc = "loop"
    /\ ~(elapsed_time < max_wait_time)
    /\ ppc' = "after"
    /\ UNCHANGED <<elapsed_time, state, polls, ended>>
    /\ UNCHANGED <<oStatus, queue, payVars, runVars, clsVars, verVars, createVars, ataVars, solVars>>

\* if elapsed_time >= max_wait_time: raise TimeoutError; otherwise on to the download
PollAfter ==
    /\ ppc = "after"
    /\ ppc' = "done"
    /\ ended' = IF elapsed_time >= max_wait_time THEN "timeout" ELSE "completed"
    /\ UNCHANGED <<elapsed_time, state, polls>>
    /\ UNCHANGED <<oStatus, queue, payVars, runVars, clsVars, verVars, createVars, ataVars, solVars>>

\* elapsed_time = 0, the loop is entered for a job of an order in processing
InitPoll ==
    /\ oStatus = STATUS_PROCESSING
    /\ payment = [status |-> PAY_CONFIRMED, transaction_signature |-> "sigGood", confirmed_at |-> "now"]
    /\ aged = FALSE
    /\ chain = <<"sigGood">>
    /\ queue = <<>>
    /\ pc = [h \in Handlers |-> "idle"]
    /\ loc = [h \in Handlers |-> NoLoc]
    /\ res = [h \in Handlers |-> "none"]
    /\ calls = [h \in Handlers |-> 0]
    /\ hist = [sigWrites |-> 0, unverified |-> FALSE, nonPending |-> FALSE,
               confirms |-> [h \in Handlers |-> 0]]
    /\ RunAtRest
    /\ ClsAtRest
    /\ VerAtRest
    /\ CreateAtRest
    /\ AtaAtRest
    /\ SolAtRest
    /\ ppc = "loop"
    /\ elapsed_time = 0
    /\ state = NULL
    /\ polls = 0
    /\ ended = "none"

NextPoll ==
    \/ PollStatus
    \/ PollExhausted
    \/ PollAfter

\* the worker runs its code on: a step that can be taken is taken
SpecPoll == InitPoll /\ [][NextPoll]_vars /\ WF_vars(NextPoll)

\* the number of polls max_wait_time and poll_interval allow
MaxPolls == max_wait_time \div poll_interval

PollingLoopBounds ==
    /\ polls <= MaxPolls
    /\ ppc = "loop" => (polls = 0 \/ state \in OtherStates)
    /\ ended = "completed" => state = QUERY_STATE_COMPLETED
    /\ ended = "failed" => state \in TerminalFailures
    /\ ended = "timeout" <=> (ppc = "done" /\ polls = MaxPolls /\ state \in OtherStates)

\* C31: the polling loop of a job ends: it makes at most 180 polls, goes on
\* only while the polls return a state that is not terminal, ends as completed
\* on a completed state, as failed on a failed or cancelled one, and as timed
\* out exactly when 180 polls all returned a state that is not terminal.
C31_PollingLoopEnds ==
    /\ []PollingLoopBounds
    /\ <>(ppc = "done")

\* the loop has timed out after its 180th poll
C31_Witness ==
    /\ ended = "timeout"
    /\ polls = 180
    /\ elapsed_time = 1800

----------------------------------------------------------------------------
(* Properties of the instruction scan *)

\* the transaction was fetched, succeeded, and has passed the recipient and
\* the reference checks
ChecksPassed ==
    /\ rpc = "found"
    /\ tx.err = "none"
    /\ RECIPIENT \in tx.account_keys \/ EXPECTED_ATA \in tx.account_keys
    /\ REFERENCE \in tx.account_keys

\* the token-program instructions that carry no parsed payload
RawInstructions == {k \in TokenInstructions : tx.instructions[k].parsed = "none"}

\* the token-program instructions that are parsed transfers
Transfers == {k \in TokenInstructions : ParsedTransfer(tx.instructions[k])}

\* C32: with the recipient and reference checks passed and no parsed
\* transfer in the transaction, verify_transaction_on_chain accepts exactly
\* when a token-program instruction without parsed payload has the derived
\* associated token account among its accounts, whatever the expected
\* amount; instructions without payload that do not involve that account
\* never lead to acceptance.
C32_UnparsedAcceptedByAtaAlone ==
    (Returned /\ ChecksPassed /\ Transfers = {}) =>
        ((verdict = "true") <=>
            \E k \in RawInstructions : EXPECTED_ATA \in tx.instructions[k].accounts)

\* accepted on the presence of the token account alone, with the largest
\* expected amount; an instruction without payload and without that account
\* comes first and did not decide
C32_Witness ==
    /\ verdict = "true"
    /\ ChecksPassed
    /\ expected_amount = MaxAmount
    /\ Len(tx.instructions) = 2
    /\ RawInstructions = {1, 2}
    /\ tx.instructions[1].accounts = {}
    /\ tx.instructions[2].accounts = {EXPECTED_ATA}

\* C33: amounts are not added up: a transaction whose token-program
\* instructions are parsed transfers that are each smaller than the expected
\* amount is rejected, also when their sum reaches the expected amount.
C33_NoAggregation ==
    (/\ Returned
     /\ TokenInstructions # {}
     /\ Transfers = TokenInstructions
     /\ \A k \in Transfers : Moved(tx.instructions[k]) < expected_amount)
        => verdict = "false"

\* two transfers to the recipient's token account that together reach the
\* expected amount have been rejected
C33_Witness ==
    /\ verdict = "false"
    /\ ChecksPassed
    /\ expected_amount = 2
    /\ Transfers = {1, 2}
    /\ \A k \in Transfers :
           /\ Moved(tx.instructions[k]) = 1
           /\ tx.instructions[k].destination = EXPECTED_ATA

\* the first parsed transfer of the token program, when the scan gets to it:
\* no instruction without payload before it has the token account
FirstTransfer(k) ==
    /\ k \in Transfers
    /\ \A j \in Transfers : k <= j
    /\ \A j \in RawInstructions : j < k => EXPECTED_ATA \notin tx.instructions[j].accounts

\* C34: the scan stops at the first parsed transfer or transferChecked of the
\* token program whether or not its amount suffices: when that transfer is
\* below the expected amount the transaction is rejected, also when a later
\* transfer meets the expected amount.
C34_FirstTransferDecides ==
    Returned =>
        \A k \in 1..Len(tx.instructions) :
            (FirstTransfer(k) /\ Moved(tx.instructions[k]) < expected_amount)
                => verdict = "false"

\* rejected on a first transfer that is too small, with a sufficient
\* transfer to the recipient's token account behind it
C34_Witness ==
    /\ verdict = "false"
    /\ ChecksPassed
    /\ Transfers = {1, 2}
    /\ Moved(tx.instructions[1]) < expected_amount
    /\ Moved(tx.instructions[2]) >= expected_amount
    /\ tx.instructions[2].destination = EXPECTED_ATA

----------------------------------------------------------------------------
(* The derivations of the associated token account *)

\* wallets and mints
Pubkeys == {"pubkey1", "pubkey2", "pubkey3", "pubkey4"}

ASSOCIATED_TOKEN_PROGRAM_ID == "ATokenGPvbdGVxr1b2hvZbsiqW5xWH25efTNsLJA8knL"

\* bytes(pubkey): the 32 bytes of a key, written as one symbol
bytes(key) == <<key>>

\* b"ata"
ATA_PREFIX == <<"a", "t", "a">>

\* the seeds are hashed one after the other
RECURSIVE Concatenated(_)
Concatenated(seeds) ==
    IF seeds = <<>> THEN <<>> ELSE Head(seeds) \o Concatenated(Tail(seeds))

\* Pubkey.find_program_address(seeds, program_id): the address is a hash of
\* the seeds and the program id; it is written as what is hashed, so that two
\* addresses are equal exactly when the same bytes went in
find_program_address(seeds, program_id) == <<Concatenated(seeds), program_id>>

Derivations == {"verify", "old", "test"}

\* verify_transaction_on_chain: seeds [recipient, token program, mint]
expected_ata(recipient_key, mint_key) ==
    find_program_address(<<bytes(recipient_key), bytes(TOKEN_PROGRAM_ID), bytes(mint_key)>>,
                         ASSOCIATED_TOKEN_PROGRAM_ID)

\* verify_transaction_on_chain_old: seeds [b"ata", recipient, token program, mint]
expected_ata_old(recipient_key, mint_key) ==
    find_program_address(<<ATA_PREFIX, bytes(recipient_key), bytes(TOKEN_PROGRAM_ID), bytes(mint_key)>>,
                         ASSOCIATED_TOKEN_PROGRAM_ID)

\* tests.py: seeds [b"ata", recipient, token program, mint]
ata_pubkey(recipient_key, mint_key) ==
    find_program_address(<<ATA_PREFIX, bytes(recipient_key), bytes(TOKEN_PROGRAM_ID), bytes(mint_key)>>,
                         ASSOCIATED_TOKEN_PROGRAM_ID)

AddressBy(d, recipient_key, mint_key) ==
    CASE d = "verify" -> expected_ata(recipient_key, mint_key)
      [] d = "old" -> expected_ata_old(recipient_key, mint_key)
      [] d = "test" -> ata_pubkey(recipient_key, mint_key)

\* one of the three derives the address of the pair
Derive(d) ==
    /\ derived[d] = <<>>
    /\ derived' = [derived EXCEPT ![d] = AddressBy(d, recipient_pubkey, mint_pubkey)]
    /\ UNCHANGED <<recipient_pubkey, mint_pubkey>>
    /\ UNCHANGED <<oStatus, queue, payVars, runVars, clsVars, verVars, createVars, pollVars, solVars>>

\* a recipient and a mint
InitDerive ==
    /\ recipient_pubkey \in Pubkeys
    /\ mint_pubkey \in Pubkeys
    /\ derived = [d \in Derivations |-> <<>>]
    /\ oStatus = STATUS_PENDING_PAYMENT
    /\ queue = <<>>
    /\ payment = [status |-> PAY_PENDING, transaction_signature |-> NULL, confirmed_at |-> NULL]
    /\ aged = FALSE
    /\ chain = <<>>
    /\ pc = [h \in Handlers |-> "idle"]
    /\ loc = [h \in Handlers |-> NoLoc]
    /\ res = [h \in Handlers |-> "none"]
    /\ calls = [h \in Handlers |-> 0]
    /\ hist = [sigWrites |-> 0, unverified |-> FALSE, nonPending |-> FALSE,
               confirms |-> [h \in Handlers |-> 0]]
    /\ RunAtRest
    /\ ClsAtRest
    /\ VerAtRest
    /\ CreateAtRest
    /\ PollAtRest
    /\ SolAtRest

NextDerive == \E d \in Derivations : Derive(d)

SpecDerive == InitDerive /\ [][NextDerive]_vars

\* C35: the three derivations of the associated token account, in
\* verify_transaction_on_chain, in verify_transaction_on_chain_old and in
\* tests.py, give the same address for the same recipient and mint.
C35_DerivationsAgree ==
    \A d1, d2 \in Derivations :
        (derived[d1] # <<>> /\ derived[d2] # <<>>) => derived[d1] = derived[d2]

----------------------------------------------------------------------------
(* The sweep on its schedule *)

\* check_pending_payments is started by its schedule, every 30 seconds and
\* without end; its calls are counted up to MaxCalls and then from 1 again
SweepScheduled ==
    /\ pc["sweep"] = "idle"
    /\ calls' = [calls EXCEPT !["sweep"] = IF @ < MaxCalls THEN @ + 1 ELSE 1]
    /\ IF payment.status = PAY_PENDING /\ aged
       THEN LET sig == search_transactions_by_reference
            IN  IF sig # NULL /\ verify_transaction_on_chain(sig)
                THEN Goto("sweep", "savePayment", [sig |-> sig, att |-> 0, verified |-> TRUE])
                ELSE Finish("sweep", "none")
       ELSE Finish("sweep", "none")
    /\ UNCHANGED <<runVars, clsVars, verVars, createVars, auxVars, oStatus, queue, payment, aged, chain, hist>>

\* the sweep with a database and a queue that work
SweepRuns ==
    \/ SweepScheduled
    \/ SweepSavePayment
    \/ SweepSaveOrder
    \/ SweepEnqueue

\* the browser may call verify_payment_api meanwhile
NextSweep ==
    \/ SweepRuns
    \/ verify_payment_api
    \/ \E sig \in Signatures : Land(sig)
    \/ GraceElapses

\* the scheduler starts the sweep again and again, and a started sweep runs on
SpecSweep == Init /\ [][NextSweep]_vars /\ WF_vars(SweepRuns)

\* C36: a pending payment older than the grace window, with a valid
\* transaction referencing its key on the chain, is eventually confirmed by
\* the repeated sweep, also when other transactions reference the same key.
C36_SweepEventuallyConfirms ==
    (aged /\ payment.status = PAY_PENDING /\ InChain("sigGood"))
        ~> (payment.status = PAY_CONFIRMED)

----------------------------------------------------------------------------
(* Properties of rerun_wallet_analysis *)

\* the stored jobs are one queued job for every configured query name
OneQueuedJobPerQuery(rows) ==
    /\ Cardinality(rows) = NumQueries
    /\ \A k \in 1..NumQueries :
           \E r \in rows : r.query_name = QueryNames[k] /\ r.status = JOB_QUEUED

\* C37: rerun_wallet_analysis deletes all jobs of the order before it moves
\* the order to processing, leaves exactly one queued job for every
\* configured query name, and enqueues exactly one analysis task; the run
\* that follows starts from queued jobs only.
C37_RerunResetsJobsAndEnqueuesOnce ==
    [][/\ (apc["rerun"] = "delete" /\ apc'["rerun"] # "delete") =>
              /\ jobs' = {}
              /\ UNCHANGED oStatus
       /\ (apc["rerun"] = "create" /\ apc'["rerun"] \notin {"create", "saveOrder"}) => FALSE
       /\ (apc["rerun"] = "create" /\ apc'["rerun"] = "saveOrder") => OneQueuedJobPerQuery(jobs')
       /\ (apc["rerun"] = "enqueue" /\ apc'["rerun"] # "enqueue") =>
              /\ Len(queue') = Len(queue) + 1
              /\ queue'[Len(queue')].by = "rerun"
       /\ \A w \in Workers :
              (wpc[w] = "jobStart" /\ wpc'[w] # "jobStart") => Job(w).status = JOB_QUEUED]_vars

----------------------------------------------------------------------------
(* Properties of the job rows *)

\* the fields of a stored job agree with its status
FieldsAgreeWithStatus(r) ==
    /\ r.status = JOB_QUEUED =>
           /\ r.started_at = NULL
           /\ r.completed_at = NULL
           /\ r.dune_execution_id = NULL
           /\ r.error_type = NULL
    /\ r.status = JOB_RUNNING =>
           /\ r.started_at # NULL
           /\ r.completed_at = NULL
    /\ r.status = JOB_COMPLETED =>
           /\ r.started_at # NULL
           /\ r.completed_at # NULL
           /\ r.dune_execution_id # NULL
           /\ r.error_type = NULL
    /\ r.status = JOB_FAILED =>
           /\ r.completed_at # NULL
           /\ r.error_type # NULL

\* a worker takes the step
WorkerStep == wpc' # wpc \/ wloc' # wloc

\* C38: the fields of every stored job agree with its status: a queued job
\* has no start time, completion time, execution id or error type, a running
\* job has a start time and no completion time, a completed job has start
\* time, completion time and execution id and no error type, a failed job has
\* a completion time and an error type; and no step of a run changes the
\* status of a stored job that is completed or failed.
C38_JobFieldsAgreeWithStatus ==
    /\ [](\A r \in jobs : FieldsAgreeWithStatus(r))
    /\ [][WorkerStep =>
              \A r \in jobs : \A r2 \in jobs' :
                  (r.id = r2.id /\ r.status \in {JOB_COMPLETED, JOB_FAILED})
                      => r2.status = r.status]_vars

\* a run has stored a completed job and a failed job and is at its end
C38_Witness ==
    /\ \E w \in Workers : wpc[w] = "finish"
    /\ \E r \in jobs : r.status = JOB_COMPLETED
    /\ \E r \in jobs : r.status = JOB_FAILED /\ r.started_at # NULL

----------------------------------------------------------------------------
(* solana_analysis *)

SOLANA_QUERY == "solana_token_transfers"

\* the four (start, end) pairs the loop goes through
TimeWindows == 4

\* the fields of DuneQueryJob
JobFields ==
    {"id", "order", "query_name", "dune_query_id", "dune_execution_id", "status",
     "error_message", "error_type", "retry_count", "created_at", "started_at", "completed_at"}

\* the keyword arguments of DuneQueryJob(...) in solana_analysis
SolanaKwargs == {"order", "arguments", "query_name", "dune_query_id"}

\* Model.__init__ raises TypeError for a keyword that is no field of the model
ConstructorRaises(kwargs) == kwargs \ JobFields # {}

\* a stored job of the order with that status, as a run leaves it
StoredJob(id, name, status) ==
    IF status = JOB_QUEUED THEN NewJob(id, name)
    ELSE IF status = JOB_COMPLETED
    THEN [NewJob(id, name) EXCEPT !.status = status, !.started_at = "now",
                                  !.completed_at = "now", !.dune_execution_id = "exec"]
    ELSE [NewJob(id, name) EXCEPT !.status = status, !.started_at = "now", !.completed_at = "now",
                                  !.error_type = ERROR_RATE_LIMIT, !.error_message = TEXT_RATE_LIMIT]

JobNames == <<QueryNames[1], QueryNames[2], SOLANA_QUERY>>

\* the job tables the order can have: for every name no job or one job
JobTables ==
    {UNION {IF pick[k] = "absent" THEN {} ELSE {StoredJob(k, JobNames[k], pick[k])} : k \in 1..3} :
        pick \in [1..3 -> {"absent", JOB_QUEUED, JOB_COMPLETED, JOB_FAILED}]}

\* existing_jobs = DuneQueryJob.objects.filter(order=order); with any job the
\* function raises
SolanaLoad ==
    /\ spc = "start"
    /\ existing_jobs' = jobs
    /\ IF Cardinality(jobs) > 0
       THEN spc' = "done" /\ sres' = "raised"
       ELSE spc' = "construct" /\ UNCHANGED sres
    /\ UNCHANGED <<oStatus, queue, payVars, runVars, clsVars, verVars, createVars, pollVars, ataVars>>

\* the first pass of the loop: DuneQueryJob(order=..., arguments=..., ...)
\* raises, so that save() and async_task are never reached
SolanaConstruct ==
    /\ spc = "construct"
    /\ ConstructorRaises(SolanaKwargs)
    /\ spc' = "done"
    /\ sres' = "raised"
    /\ UNCHANGED existing_jobs
    /\ UNCHANGED <<oStatus, queue, payVars, runVars, clsVars, verVars, createVars, pollVars, ataVars>>

\* solana_analysis is called for an order in processing
InitSolana ==
    /\ oStatus = STATUS_PROCESSING
    /\ payment = [status |-> PAY_CONFIRMED, transaction_signature |-> "sigGood", confirmed_at |-> "now"]
    /\ aged = FALSE
    /\ chain = <<"sigGood">>
    /\ queue = <<>>
    /\ pc = [h \in Handlers |-> "idle"]
    /\ loc = [h \in Handlers |-> NoLoc]
    /\ res = [h \in Handlers |-> "none"]
    /\ calls = [h \in Handlers |-> 0]
    /\ hist = [sigWrites |-> 0, unverified |-> FALSE, nonPending |-> FALSE,
               confirms |-> [h \in Handlers |-> 0]]
    /\ jobs \in JobTables
    /\ reports = [name \in {QueryNames[k] : k \in 1..NumQueries} |-> 0]
    /\ wpc = [w \in Workers |-> "idle"]
    /\ wloc = [w \in Workers |-> NoRun]
    /\ wres = [w \in Workers |-> "none"]
    /\ runs = 0
    /\ apc = [a \in AdminActions |-> "idle"]
    /\ aloc = [a \in AdminActions |-> NoAdmin]
    /\ adminCalls = 0
    /\ ClsAtRest
    /\ VerAtRest
    /\ CreateAtRest
    /\ PollAtRest
    /\ AtaAtRest
    /\ spc = "start"
    /\ existing_jobs = {}
    /\ sres = "none"

NextSolana ==
    \/ SolanaLoad
    \/ SolanaConstruct

SpecSolana == InitSolana /\ [][NextSolana]_vars

\* the tasks solana_analysis has enqueued
SolanaTasks == {i \in 1..Len(queue) : queue[i].by = "solana"}

\* C39: called for an order without jobs, solana_analysis creates four jobs
\* named solana_token_transfers, one per time window, and enqueues one task
\* for each; called for an order that has a job, it raises and creates and
\* enqueues nothing.
C39_SolanaAnalysisCreatesFourJobs ==
    spc = "done" =>
        IF existing_jobs = {}
        THEN /\ Cardinality({r \in jobs : r.query_name = SOLANA_QUERY}) = TimeWindows
             /\ Cardinality(SolanaTasks) = TimeWindows
        ELSE /\ sres = "raised"
             /\ jobs = existing_jobs
             /\ SolanaTasks = {}

====
